---------------------------- MODULE Spec2Model ----------------------------
(***************************************************************************)
(* DriftGuard: drift computation (agent/diff_analyzer.py), policy          *)
(* evaluation (agent/policy_engine.py) and the reconciliation cycle        *)
(* (agent/main.py, agent/reporter.py).                                     *)
(*                                                                         *)
(* Python values are tagged records [t, v]; a dict is the sequence of its  *)
(* <<key, value>> items in insertion order, keys being strings.  A Python  *)
(* call that can raise is an operator returning a record with an exc flag. *)
(* hashlib.sha256(s).hexdigest()[:16] is taken collision-free: the digest  *)
(* of a string is modelled as a value determined by exactly that string.   *)
(***************************************************************************)
EXTENDS Integers, Sequences, FiniteSets, TLC

VARIABLES
    seen_drifts,   \* DiffAnalyzer.seen_drifts of the analyzer in use
    call,          \* the last compute_diffs call: its input and what it returned
    ncalls,        \* number of compute_diffs calls made so far
    returned,      \* history: every DriftReport any compute_diffs call returned
    emitted,       \* history: identity and drift_id of every report constructed
    flat_in,       \* _flatten_dict: the argument mapping and separator
    flat_out,      \* _flatten_dict: the mapping returned
    policies,      \* PolicyEngine.policies
    ev,            \* the last PolicyEngine.evaluate call: its input and outcome
    engine,        \* PolicyEngine(config): "none" before, then "ready" or "raised"
    policy_files,  \* the candidate policy paths: the document at each, or Absent
    cycles,        \* number of run_drift_detection cycles the process has run
    last_run,      \* status of the last cycle, as monitoring.update_last_run got it
    last_report,   \* the last report handed to the report sink
    reported_before, \* history: the drift_ids of the reports of earlier cycles
    run_mode,      \* RUN_MODE: "continuous" or "once"
    process,       \* "running", or how the process ended: "exit 0", "exit nonzero"
    run_log,       \* history: for every cycle run, its status and the failed step
    cwd,           \* the working directory relative policy paths resolve against
    repo_files,    \* the documents at the relative policy paths of the cloned repository
    monitoring,    \* monitoring.state of the module-level DriftGuardMonitoring
    cycle_log,     \* history: for every cycle run, what it loaded, recorded and alerted
    kafka_detector, \* the last cycle's Kafka start: the settings and kafka_enabled
    scheduler,     \* the main thread: where it is, and the run_drift_detection calls in progress
    health,        \* the health server thread: whether it runs, the last request it served
    config,        \* validate_config: the configuration it is given
    validated      \* validate_config: whether it ran, what it raised, its errors

analyzerVars == <<seen_drifts, call, ncalls, returned, emitted>>
flattenVars == <<flat_in, flat_out>>
policyVars == <<policies, ev, engine>>
processVars ==
    <<cycles, last_run, last_report, reported_before, run_mode, process, run_log,
      cwd, monitoring, cycle_log, kafka_detector, scheduler, health>>
mainVars == <<policy_files, repo_files, processVars>>
configVars == <<config, validated>>
vars == <<analyzerVars, flattenVars, policyVars, mainVars, configVars>>

(***************************************************************************)
(* Bounds of the model.                                                    *)
(***************************************************************************)
MaxCalls == 2
MaxWidth == 2
MaxReports == 2
MaxCycles == 2
MaxRepeats == 3

(***************************************************************************)
(* Python values.                                                          *)
(***************************************************************************)
PyNone == [t |-> "none", v |-> <<>>]
PyInt(n) == [t |-> "int", v |-> <<n>>]
PyStr(s) == [t |-> "str", v |-> s]
PyList(xs) == [t |-> "list", v |-> xs]
PyDict(items) == [t |-> "dict", v |-> items]

IsDict(x) == x.t = "dict"

SeqToSet(s) == {s[i] : i \in DOMAIN s}

DictKeys(d) == {d.v[i][1] : i \in DOMAIN d.v}

HasKey(d, k) == \E i \in DOMAIN d.v : d.v[i][1] = k

\* d[k] for a key the dict holds
DictAt(d, k) == d.v[CHOOSE i \in DOMAIN d.v : d.v[i][1] = k][2]

\* d.get(k, default) on a dict d
DictGet(d, k, default) == IF HasKey(d, k) THEN DictAt(d, k) ELSE default

\* d[k] = v on the item sequence of a dict: a key already present keeps its
\* position and takes the new value, a new key is appended
ItemsSet(items, k, v) ==
    IF \E i \in DOMAIN items : items[i][1] = k
    THEN [i \in DOMAIN items |-> IF items[i][1] = k THEN <<k, v>> ELSE items[i]]
    ELSE Append(items, <<k, v>>)

\* dict(items) for a list of (key, value) pairs
RECURSIVE dict_of_items(_)
dict_of_items(pairs) ==
    IF pairs = <<>> THEN <<>>
    ELSE LET n == Len(pairs)
         IN ItemsSet(dict_of_items(SubSeq(pairs, 1, n - 1)), pairs[n][1], pairs[n][2])

\* Python ==: dicts compare as mappings (item order is irrelevant), lists
\* elementwise, everything else by type and value
RECURSIVE PyEq(_, _)
PyEq(a, b) ==
    IF a.t # b.t THEN FALSE
    ELSE IF a.t = "dict"
         THEN /\ DictKeys(a) = DictKeys(b)
              /\ \A k \in DictKeys(a) : PyEq(DictAt(a, k), DictAt(b, k))
    ELSE IF a.t = "list"
         THEN /\ Len(a.v) = Len(b.v)
              /\ \A i \in DOMAIN a.v : PyEq(a.v[i], b.v[i])
    ELSE a.v = b.v

\* str(x) as an f-string renders it, for the values used as names
Digit(n) == CASE n = 0 -> "0" [] n = 1 -> "1" [] n = 2 -> "2" [] n = 3 -> "3"
              [] n = 4 -> "4" [] n = 5 -> "5" [] n = 6 -> "6" [] n = 7 -> "7"
              [] n = 8 -> "8" [] n = 9 -> "9"
Format(x) == CASE x.t = "str" -> x.v
               [] x.t = "none" -> "None"
               [] x.t = "int" -> Digit(x.v[1])

\* p in s, for strings
Contains(p, s) ==
    \/ p = ""
    \/ \E i \in 1..(Len(s) - Len(p) + 1) : SubSeq(s, i, i + Len(p) - 1) = p

(***************************************************************************)
(* DiffAnalyzer._flatten_dict                                              *)
(***************************************************************************)
new_key_nosep(parent_key, sep, k) == IF parent_key # "" THEN parent_key \o k ELSE k

new_key(parent_key, sep, k) == IF parent_key # "" THEN parent_key \o sep \o k ELSE k

RECURSIVE flatten_items(_, _, _)
flatten_items(items, parent_key, sep) ==
    IF items = <<>> THEN <<>>
    ELSE LET k == Head(items)[1]
             v == Head(items)[2]
             nk == new_key(parent_key, sep, k)
             here == IF IsDict(v)
                     THEN dict_of_items(flatten_items(v.v, nk, sep))
                     ELSE << <<nk, v>> >>
         IN here \o flatten_items(Tail(items), parent_key, sep)

\* d.items() raises AttributeError when d is no mapping
_flatten_dict(d, parent_key, sep) ==
    IF ~IsDict(d) THEN [exc |-> TRUE, val |-> PyNone]
    ELSE [exc |-> FALSE, val |-> PyDict(dict_of_items(flatten_items(d.v, parent_key, sep)))]


(***************************************************************************)
(* DriftReport and the fingerprint.                                        *)
(***************************************************************************)
DriftReport_id_with_value(drift_id, resource_type, resource_id, drift_type, field_path, expected_value, actual_value) ==
    [drift_id |-> drift_id \o (IF expected_value.t = "int"
                               THEN Digit(expected_value.v[1]) ELSE ""),
     resource_type |-> resource_type,
     resource_id |-> resource_id, drift_type |-> drift_type,
     field_path |-> field_path, expected_value |-> expected_value,
     actual_value |-> actual_value, severity |-> "warning",
     timestamp |-> "2023-01-01T00:00:00Z"]

DriftReport_type_aws(drift_id, resource_type, resource_id, drift_type, field_path, expected_value, actual_value) ==
    [drift_id |-> drift_id, resource_type |-> resource_type,
     resource_id |-> resource_id, drift_type |-> "aws",
     field_path |-> field_path, expected_value |-> expected_value,
     actual_value |-> actual_value, severity |-> "warning",
     timestamp |-> "2023-01-01T00:00:00Z"]

DriftReport(drift_id, resource_type, resource_id, drift_type, field_path, expected_value, actual_value) ==
    [drift_id |-> drift_id, resource_type |-> resource_type,
     resource_id |-> resource_id, drift_type |-> drift_type,
     field_path |-> field_path, expected_value |-> expected_value,
     actual_value |-> actual_value, severity |-> "warning",
     timestamp |-> "2023-01-01T00:00:00Z"]

\* hashlib.sha256(s.encode()).hexdigest()[:16]
sha256_hex16(s) == "sha256:" \o s

aws_drift_id(resource_type, resource_name, field) ==
    sha256_hex16("aws_" \o resource_type \o "_" \o resource_name \o "_" \o field)

k8s_drift_id(deployment_namespace, deployment_name, field_path) ==
    sha256_hex16("k8s_deployment_" \o deployment_namespace \o "_"
                 \o deployment_name \o "_" \o field_path)

kafka_drift_id(topic_name, field_path) ==
    sha256_hex16("kafka_topic_" \o topic_name \o "_" \o field_path)

generic_drift_id(field_path) == sha256_hex16("generic_" \o field_path)

\* x not in s
NotIn_always(x, s) == TRUE

NotIn(x, s) == x \notin s

\* what a comparator has so far: whether it raised, its diffs list,
\* self.seen_drifts, and (history) the identity of every report it constructed
Acc(seen) == [exc |-> FALSE, diffs |-> <<>>, seen |-> seen, log |-> {}]

Raise(acc) == [acc EXCEPT !.exc = TRUE]

Origin(domain, report, namespace, name) ==
    [domain |-> domain, resource_type |-> report.resource_type,
     namespace |-> namespace, name |-> name,
     field_path |-> report.field_path, drift_id |-> report.drift_id]

\* if drift_id not in self.seen_drifts: diffs.append(diff); self.seen_drifts.add(drift_id)
Emit_no_add(acc, report, origin) ==
    IF NotIn(report.drift_id, acc.seen)
    THEN [acc EXCEPT !.diffs = Append(@, report), !.log = @ \cup {origin}]
    ELSE acc

Emit(acc, report, origin) ==
    IF NotIn(report.drift_id, acc.seen)
    THEN [acc EXCEPT !.diffs = Append(@, report),
                     !.seen = @ \cup {report.drift_id},
                     !.log = @ \cup {origin}]
    ELSE acc

\* bool(x)
Truthy(x) == CASE x.t = "none" -> FALSE
               [] x.t = "int" -> x.v[1] # 0
               [] x.t = "str" -> x.v # ""
               [] OTHER -> x.v # <<>>

\* for y in x: the elements, or a TypeError for a value that is not iterable
Iterate(x) ==
    CASE x.t = "list" -> [exc |-> FALSE, val |-> x.v]
      [] x.t = "dict" -> [exc |-> FALSE, val |-> [i \in DOMAIN x.v |-> PyStr(x.v[i][1])]]
      [] x.t = "str" -> [exc |-> FALSE,
                         val |-> [i \in 1..Len(x.v) |-> PyStr(SubSeq(x.v, i, i))]]
      [] OTHER -> [exc |-> TRUE, val |-> <<>>]

(***************************************************************************)
(* DiffAnalyzer._compare_aws_resources                                     *)
(***************************************************************************)
\* for field, expected_value in resource_values.items()
RECURSIVE aws_fields(_, _, _, _)
aws_fields(acc, resource_type, resource_name, items) ==
    IF items = <<>> THEN acc
    ELSE LET field == Head(items)[1]
             report == DriftReport(aws_drift_id(resource_type, resource_name, field),
                                   resource_type,
                                   resource_type \o "." \o resource_name,
                                   "aws", field, Head(items)[2], PyStr("live_value"))
         IN aws_fields(Emit(acc, report, Origin("aws", report, "", resource_name)),
                       resource_type, resource_name, Tail(items))

RECURSIVE aws_resources_any_type(_, _)
aws_resources_any_type(acc, resources) ==
    IF resources = <<>> THEN acc
    ELSE IF ~IsDict(Head(resources)) \/ ~IsDict(DictGet(Head(resources), "values", PyDict(<<>>)))
         THEN Raise(acc)
         ELSE aws_resources_any_type(
                  aws_fields(acc, Format(DictGet(Head(resources), "type", PyStr(""))),
                             Format(DictGet(Head(resources), "name", PyStr(""))),
                             DictGet(Head(resources), "values", PyDict(<<>>)).v),
                  Tail(resources))

\* for resource in desired_resources
RECURSIVE aws_resources(_, _)
aws_resources(acc, resources) ==
    IF resources = <<>> THEN acc
    ELSE LET resource == Head(resources)
         IN IF ~IsDict(resource) THEN Raise(acc)
            ELSE LET resource_type == DictGet(resource, "type", PyStr(""))
                     resource_name == DictGet(resource, "name", PyStr(""))
                     resource_values == DictGet(resource, "values", PyDict(<<>>))
                 IN IF resource_type = PyStr("aws_instance")
                    THEN IF ~IsDict(resource_values) THEN Raise(acc)
                         ELSE aws_resources(
                                  aws_fields(acc, resource_type.v,
                                             Format(resource_name), resource_values.v),
                                  Tail(resources))
                    ELSE aws_resources(acc, Tail(resources))

_compare_aws_resources(seen, desired_state, live_state) ==
    LET desired_resources == Iterate(DictGet(desired_state, "resources", PyList(<<>>)))
    IN IF desired_resources.exc THEN Raise(Acc(seen))
       ELSE aws_resources(Acc(seen), desired_resources.val)

(***************************************************************************)
(* DiffAnalyzer._compare_k8s_resources                                     *)
(***************************************************************************)
\* for field_path, expected_value in self._flatten_dict(desired_spec).items()
RECURSIVE k8s_fields(_, _, _, _)
k8s_fields(acc, deployment_namespace, deployment_name, items) ==
    IF items = <<>> THEN acc
    ELSE LET field_path == Head(items)[1]
             report == DriftReport(k8s_drift_id(deployment_namespace, deployment_name,
                                                field_path),
                                   "k8s_deployment",
                                   deployment_namespace \o "/" \o deployment_name,
                                   "kubernetes", field_path, Head(items)[2],
                                   PyStr("live_value"))
         IN k8s_fields(Emit(acc, report,
                            Origin("kubernetes", report, deployment_namespace,
                                   deployment_name)),
                       deployment_namespace, deployment_name, Tail(items))

\* for desired_deployment in desired_deployments
RECURSIVE k8s_deployments(_, _)
k8s_deployments(acc, deployments) ==
    IF deployments = <<>> THEN acc
    ELSE LET desired_deployment == Head(deployments)
         IN IF ~(Truthy(desired_deployment) /\ IsDict(desired_deployment))
            THEN k8s_deployments(acc, Tail(deployments))
            ELSE LET metadata == DictGet(desired_deployment, "metadata", PyDict(<<>>))
                     desired_spec == DictGet(desired_deployment, "spec", PyDict(<<>>))
                     flat == _flatten_dict(desired_spec, "", ".")
                 IN IF ~IsDict(metadata) \/ flat.exc THEN Raise(acc)
                    ELSE k8s_deployments(
                             k8s_fields(acc,
                                 Format(DictGet(metadata, "namespace", PyStr("default"))),
                                 Format(DictGet(metadata, "name", PyStr("unknown"))),
                                 flat.val.v),
                             Tail(deployments))

_compare_k8s_resources(seen, desired_state, live_state) ==
    LET desired_deployments == Iterate(DictGet(desired_state, "deployments", PyList(<<>>)))
    IN IF desired_deployments.exc THEN Raise(Acc(seen))
       ELSE k8s_deployments(Acc(seen), desired_deployments.val)

(***************************************************************************)
(* DiffAnalyzer._compare_kafka_resources                                   *)
(***************************************************************************)
\* for field_path, expected_value in self._flatten_dict(desired_topic).items()
RECURSIVE kafka_fields(_, _, _)
kafka_fields(acc, topic_name, items) ==
    IF items = <<>> THEN acc
    ELSE LET field_path == Head(items)[1]
             report == DriftReport(kafka_drift_id(topic_name, field_path),
                                   "kafka_topic", topic_name, "kafka", field_path,
                                   Head(items)[2], PyStr("live_value"))
         IN kafka_fields(Emit(acc, report, Origin("kafka", report, "", topic_name)),
                         topic_name, Tail(items))

\* for desired_topic in desired_topics
RECURSIVE kafka_topics(_, _)
kafka_topics(acc, topics) ==
    IF topics = <<>> THEN acc
    ELSE LET desired_topic == Head(topics)
         IN IF ~IsDict(desired_topic) THEN kafka_topics(acc, Tail(topics))
            ELSE kafka_topics(
                     kafka_fields(acc,
                         Format(DictGet(desired_topic, "name", PyStr("unknown"))),
                         _flatten_dict(desired_topic, "", ".").val.v),
                     Tail(topics))

_compare_kafka_resources(seen, desired_state, live_state) ==
    LET desired_topics == Iterate(DictGet(desired_state, "topics", PyList(<<>>)))
    IN IF desired_topics.exc THEN Raise(Acc(seen))
       ELSE kafka_topics(Acc(seen), desired_topics.val)

(***************************************************************************)
(* DiffAnalyzer._compare_generic_resources                                 *)
(***************************************************************************)
\* if expected_value != actual_value
differs_if_present(expected_value, actual_value) ==
    actual_value # PyNone /\ ~PyEq(expected_value, actual_value)

differs(expected_value, actual_value) == ~PyEq(expected_value, actual_value)

\* for field_path, expected_value in desired_flat.items()
RECURSIVE generic_fields(_, _, _)
generic_fields(acc, items, live_flat) ==
    IF items = <<>> THEN acc
    ELSE LET field_path == Head(items)[1]
             expected_value == Head(items)[2]
             actual_value == DictGet(live_flat, field_path, PyNone)
             report == DriftReport(generic_drift_id(field_path), "generic", "unknown",
                                   "aws", field_path, expected_value, actual_value)
         IN generic_fields(
                IF differs(expected_value, actual_value)
                THEN Emit(acc, report, Origin("generic", report, "", ""))
                ELSE acc,
                Tail(items), live_flat)

_compare_generic_resources(seen, desired_state, live_state) ==
    LET desired_flat == _flatten_dict(desired_state, "", ".")
        live_flat == _flatten_dict(live_state, "", ".")
    IN IF desired_flat.exc \/ live_flat.exc THEN Raise(Acc(seen))
       ELSE generic_fields(Acc(seen), desired_flat.val.v, live_flat.val)

(***************************************************************************)
(* DiffAnalyzer.compute_diffs                                              *)
(***************************************************************************)
\* the comparator the routing selects
Route_k8s_first(desired_state, live_state) ==
    IF HasKey(desired_state, "deployments") /\ HasKey(live_state, "deployments")
    THEN "kubernetes"
    ELSE IF HasKey(desired_state, "resources") /\ HasKey(live_state, "ec2_instances")
    THEN "aws"
    ELSE IF HasKey(desired_state, "topics") /\ HasKey(live_state, "topics")
    THEN "kafka"
    ELSE "generic"

Route(desired_state, live_state) ==
    IF HasKey(desired_state, "resources") /\ HasKey(live_state, "ec2_instances")
    THEN "aws"
    ELSE IF HasKey(desired_state, "deployments") /\ HasKey(live_state, "deployments")
    THEN "kubernetes"
    ELSE IF HasKey(desired_state, "topics") /\ HasKey(live_state, "topics")
    THEN "kafka"
    ELSE "generic"

\* the body of the try block; desired_state.get and live_state.get raise
\* AttributeError on a value that is no mapping
compute_diffs_try(seen, desired_state, live_state) ==
    IF ~IsDict(desired_state) \/ ~IsDict(live_state) THEN Raise(Acc(seen))
    ELSE CASE Route(desired_state, live_state) = "aws" ->
                  _compare_aws_resources(seen, desired_state, live_state)
           [] Route(desired_state, live_state) = "kubernetes" ->
                  _compare_k8s_resources(seen, desired_state, live_state)
           [] Route(desired_state, live_state) = "kafka" ->
                  _compare_kafka_resources(seen, desired_state, live_state)
           [] OTHER ->
                  _compare_generic_resources(seen, desired_state, live_state)

\* the loop that removes duplicate drift reports
RECURSIVE unique_diffs(_, _, _)
unique_diffs(diffs, unique, seen_ids) ==
    IF diffs = <<>> THEN unique
    ELSE IF NotIn(Head(diffs).drift_id, seen_ids)
         THEN unique_diffs(Tail(diffs), Append(unique, Head(diffs)),
                           seen_ids \cup {Head(diffs).drift_id})
         ELSE unique_diffs(Tail(diffs), unique, seen_ids)

compute_diffs_no_except(seen, desired_state, live_state) ==
    LET body == compute_diffs_try(seen, desired_state, live_state)
    IN [exc |-> body.exc, caught |-> FALSE,
        diffs |-> IF body.exc THEN <<>> ELSE unique_diffs(body.diffs, <<>>, {}),
        seen |-> body.seen, log |-> body.log]

\* exc: whether the call propagates an exception; caught: whether the except
\* clause ran; diffs: the list returned; seen: self.seen_drifts after the call
compute_diffs(seen, desired_state, live_state) ==
    LET body == compute_diffs_try(seen, desired_state, live_state)
    IN IF body.exc
       THEN [exc |-> FALSE, caught |-> TRUE, diffs |-> <<>>,
             seen |-> body.seen, log |-> body.log]
       ELSE [exc |-> FALSE, caught |-> FALSE,
             diffs |-> unique_diffs(body.diffs, <<>>, {}),
             seen |-> body.seen, log |-> body.log]

(***************************************************************************)
(* PolicyEngine                                                            *)
(***************************************************************************)
\* x.get(k, default), which raises AttributeError when x is no mapping
Get(x, k, default) ==
    IF IsDict(x) THEN [exc |-> FALSE, val |-> DictGet(x, k, default)]
    ELSE [exc |-> TRUE, val |-> PyNone]

\* self.policies.get(section, {}).get(key, [])
PolicyList(pol, section, key) ==
    LET sec == Get(pol, section, PyDict(<<>>))
    IN IF sec.exc THEN [exc |-> TRUE, val |-> <<>>]
       ELSE LET lst == Get(sec.val, key, PyList(<<>>))
            IN IF lst.exc THEN [exc |-> TRUE, val |-> <<>>] ELSE Iterate(lst.val)

\* for pattern in patterns: if pattern in text: return True
\* (pattern in text raises TypeError when pattern is no string)
RECURSIVE any_pattern_in(_, _)
any_pattern_in(patterns, text) ==
    IF patterns = <<>> THEN [exc |-> FALSE, val |-> FALSE]
    ELSE IF Head(patterns).t # "str" THEN [exc |-> TRUE, val |-> FALSE]
    ELSE IF Contains(Head(patterns).v, text) THEN [exc |-> FALSE, val |-> TRUE]
    ELSE any_pattern_in(Tail(patterns), text)

_classify_severity_critical_first(pol, report) ==
    LET text == report.resource_type \o "." \o report.field_path
        ignore_patterns == PolicyList(pol, "drift_rules", "ignore")
        critical_patterns == PolicyList(pol, "drift_rules", "critical")
        ignored == any_pattern_in(ignore_patterns.val, text)
        critical == any_pattern_in(critical_patterns.val, text)
    IN IF critical_patterns.exc \/ critical.exc THEN [exc |-> TRUE, val |-> "warning"]
       ELSE IF critical.val THEN [exc |-> FALSE, val |-> "critical"]
       ELSE IF ignore_patterns.exc \/ ignored.exc THEN [exc |-> TRUE, val |-> "warning"]
       ELSE IF ignored.val THEN [exc |-> FALSE, val |-> "ignored"]
       ELSE [exc |-> FALSE, val |-> "warning"]

_classify_severity(pol, report) ==
    LET text == report.resource_type \o "." \o report.field_path
        ignore_patterns == PolicyList(pol, "drift_rules", "ignore")
        critical_patterns == PolicyList(pol, "drift_rules", "critical")
        ignored == any_pattern_in(ignore_patterns.val, text)
        critical == any_pattern_in(critical_patterns.val, text)
    IN IF ignore_patterns.exc \/ ignored.exc THEN [exc |-> TRUE, val |-> "warning"]
       ELSE IF ignored.val THEN [exc |-> FALSE, val |-> "ignored"]
       ELSE IF critical_patterns.exc \/ critical.exc THEN [exc |-> TRUE, val |-> "warning"]
       ELSE IF critical.val THEN [exc |-> FALSE, val |-> "critical"]
       ELSE [exc |-> FALSE, val |-> "warning"]

auto_apply_first_rule(rules) ==
    IF rules = <<>> THEN [exc |-> FALSE, val |-> FALSE]
    ELSE IF ~(IsDict(Head(rules)) /\ HasKey(Head(rules), "environment"))
    THEN [exc |-> TRUE, val |-> FALSE]
    ELSE [exc |-> FALSE, val |-> DictAt(Head(rules), "environment") = PyStr("dev")]

\* for rule in auto_apply_rules: if rule['environment'] == 'dev': ... break
\* (rule['environment'] raises on a rule without the key or that is no mapping)
RECURSIVE auto_apply_of(_)
auto_apply_of(rules) ==
    IF rules = <<>> THEN [exc |-> FALSE, val |-> FALSE]
    ELSE IF ~(IsDict(Head(rules)) /\ HasKey(Head(rules), "environment"))
    THEN [exc |-> TRUE, val |-> FALSE]
    ELSE IF DictAt(Head(rules), "environment") = PyStr("dev")
    THEN [exc |-> FALSE, val |-> TRUE]
    ELSE auto_apply_of(Tail(rules))

RemediationAction(action_type, resource_type, resource_id, description, auto_apply, timestamp) ==
    [action_type |-> action_type, resource_type |-> resource_type,
     resource_id |-> resource_id, description |-> description,
     auto_apply |-> auto_apply, timestamp |-> timestamp]

_determine_action(pol, report) ==
    LET auto_apply_rules == PolicyList(pol, "remediation", "auto_apply")
        auto_apply == auto_apply_of(auto_apply_rules.val)
    IN IF auto_apply_rules.exc \/ auto_apply.exc THEN [exc |-> TRUE, val |-> PyNone]
       ELSE [exc |-> FALSE,
             val |-> RemediationAction(
                         IF auto_apply.val THEN "remediate" ELSE "alert",
                         report.resource_type, report.resource_id,
                         "Drift detected in " \o report.resource_type \o "."
                             \o report.field_path,
                         auto_apply.val, report.timestamp)]

\* one pass of the loop of evaluate over drift_reports[i]; st holds the reports
\* (mutated in place), the actions list and whether an exception was raised
evaluate_step_skip_ignored(pol, st, i) ==
    LET severity == _classify_severity(pol, st.reports[i])
        report == [st.reports[i] EXCEPT !.severity = severity.val]
        action == _determine_action(pol, report)
    IN IF severity.exc THEN [st EXCEPT !.exc = TRUE]
       ELSE IF action.exc THEN [st EXCEPT !.exc = TRUE, !.reports[i] = report]
       ELSE [st EXCEPT !.reports[i] = report,
                       !.actions = IF severity.val = "ignored" THEN @
                                   ELSE Append(@, action.val)]

evaluate_step_restamp(pol, st, i) ==
    LET severity == _classify_severity(pol, st.reports[i])
        report == [st.reports[i] EXCEPT !.severity = severity.val, !.timestamp = "now"]
        action == _determine_action(pol, report)
    IN IF severity.exc THEN [st EXCEPT !.exc = TRUE]
       ELSE IF action.exc THEN [st EXCEPT !.exc = TRUE, !.reports[i] = report]
       ELSE [st EXCEPT !.reports[i] = report, !.actions = Append(@, action.val)]

evaluate_step(pol, st, i) ==
    LET severity == _classify_severity(pol, st.reports[i])
        report == [st.reports[i] EXCEPT !.severity = severity.val]
        action == _determine_action(pol, report)
    IN IF severity.exc THEN [st EXCEPT !.exc = TRUE]
       ELSE IF action.exc THEN [st EXCEPT !.exc = TRUE, !.reports[i] = report]
       ELSE [st EXCEPT !.reports[i] = report, !.actions = Append(@, action.val)]

RECURSIVE evaluate_from(_, _, _)
evaluate_from(pol, st, i) ==
    IF i > Len(st.reports) \/ st.exc THEN st
    ELSE evaluate_from(pol, evaluate_step(pol, st, i), i + 1)

\* exc: whether the call raised; reports: drift_reports after the call;
\* actions: the list returned
evaluate(pol, drift_reports) ==
    evaluate_from(pol, [exc |-> FALSE, reports |-> drift_reports, actions |-> <<>>], 1)

(***************************************************************************)
(* Inputs of _flatten_dict: mappings of up to MaxWidth items, three levels *)
(* deep, over keys that include the separator and the empty string, with   *)
(* scalars and sequences as leaves; and the non-mapping None.              *)
(***************************************************************************)
FlatLeaves == {PyInt(1), PyList(<<PyInt(2)>>)}
TopKeys == {"a", "b", "a.b", ""}
Separators == {".", "__"}
NestedDicts ==
    {PyDict(<<>>),
     PyDict(<< <<"b", PyInt(1)>> >>),
     PyDict(<< <<"", PyInt(1)>> >>),
     PyDict(<< <<"b", PyDict(<< <<"b", PyInt(1)>> >>)>> >>),
     PyDict(<< <<"b", PyDict(<< <<"", PyList(<<PyInt(2)>>)>> >>)>> >>),
     PyDict(<< <<"", PyDict(<< <<"b", PyInt(1)>> >>)>> >>)}

\* the item sequences of at most n items with distinct keys from keys
RECURSIVE ItemSeqs(_, _, _)
ItemSeqs(keys, vals, n) ==
    IF n = 0 THEN {<<>>}
    ELSE LET shorter == ItemSeqs(keys, vals, n - 1)
         IN shorter \cup
            UNION {{Append(s, <<k, v>>) :
                        k \in keys \ {s[i][1] : i \in DOMAIN s}, v \in vals} :
                   s \in {x \in shorter : Len(x) = n - 1}}

FlatTrees == {PyDict(s) : s \in ItemSeqs(TopKeys, FlatLeaves \cup NestedDicts, MaxWidth)}
FlattenInputs == (FlatTrees \cup {PyNone}) \X Separators

FlattenInit ==
    /\ flat_in \in FlattenInputs
    /\ flat_out = [done |-> FALSE, exc |-> FALSE, val |-> PyNone]

\* one _flatten_dict(d, sep=sep) call
Flatten ==
    /\ ~flat_out.done
    /\ LET r == _flatten_dict(flat_in[1], "", flat_in[2])
       IN flat_out' = [done |-> TRUE, exc |-> r.exc, val |-> r.val]
    /\ UNCHANGED flat_in

(***************************************************************************)
(* The snapshots handed to compute_diffs.                                  *)
(***************************************************************************)
Resource(type, name, values) ==
    PyDict(<< <<"type", PyStr(type)>>, <<"name", PyStr(name)>>, <<"values", values>> >>)
Resources(rs) == PyDict(<< <<"resources", rs>> >>)
ValuesX1 == PyDict(<< <<"x", PyInt(1)>> >>)
ValuesX2Tags ==
    PyDict(<< <<"x", PyInt(2)>>, <<"tags", PyDict(<< <<"Name", PyStr("t")>> >>)>> >>)

AwsDesired ==
    {Resources(PyList(<<Resource("aws_instance", "a", ValuesX1)>>)),
     Resources(PyList(<<Resource("aws_instance", "a", ValuesX2Tags)>>)),
     Resources(PyList(<<Resource("aws_instance", "a", ValuesX1),
                        Resource("aws_instance", "b", ValuesX1)>>)),
     Resources(PyList(<<Resource("aws_instance", "a", ValuesX2Tags),
                        Resource("aws_instance", "a", ValuesX1)>>)),
     Resources(PyList(<<Resource("aws_instance", "a_b", PyDict(<< <<"c", PyInt(1)>> >>)),
                        Resource("aws_instance", "a", PyDict(<< <<"b_c", PyInt(1)>> >>))>>)),
     Resources(PyList(<<Resource("aws_instance", "a", ValuesX1), PyNone>>)),
     Resources(PyList(<<Resource("aws_instance", "b", ValuesX1),
                        Resource("aws_instance", "a", PyNone)>>)),
     Resources(PyList(<<Resource("aws_s3_bucket", "a", ValuesX1)>>)),
     Resources(PyList(<<PyDict(<< <<"type", PyStr("aws_instance")>>,
                                  <<"values", ValuesX1>> >>)>>)),
     Resources(PyList(<<>>)),
     Resources(PyNone)}
AwsLive ==
    {PyDict(<< <<"ec2_instances", PyDict(<<>>)>>, <<"security_groups", PyDict(<<>>)>> >>)}

Deployment(namespace, name, spec) ==
    PyDict(<< <<"metadata", PyDict(<< <<"name", PyStr(name)>>,
                                      <<"namespace", PyStr(namespace)>> >>)>>,
              <<"spec", spec>> >>)
Deployments(ds) == PyDict(<< <<"deployments", ds>> >>)
SpecReplicas == PyDict(<< <<"replicas", PyInt(3)>> >>)
SpecSelector ==
    PyDict(<< <<"replicas", PyInt(2)>>,
              <<"selector", PyDict(<< <<"app", PyStr("t")>> >>)>> >>)

K8sDesired ==
    {Deployments(PyList(<<Deployment("default", "a", SpecReplicas)>>)),
     Deployments(PyList(<<Deployment("default", "a", SpecSelector)>>)),
     Deployments(PyList(<<Deployment("default", "a", SpecSelector),
                          Deployment("prod", "a", SpecReplicas)>>)),
     Deployments(PyList(<<PyNone, PyStr("x"), PyDict(<<>>),
                          Deployment("default", "a", SpecReplicas)>>)),
     Deployments(PyList(<<PyDict(<< <<"spec", SpecReplicas>> >>)>>)),
     Deployments(PyList(<<Deployment("default", "a", SpecReplicas),
                          PyDict(<< <<"metadata", PyNone>>, <<"spec", SpecReplicas>> >>)>>)),
     Deployments(PyList(<<Deployment("default", "a", PyNone)>>)),
     Deployments(PyNone)}
K8sLive == {PyDict(<< <<"deployments", PyDict(<<>>)>> >>)}

Topic(name, partitions) ==
    PyDict(<< <<"name", PyStr(name)>>, <<"partitions", PyInt(partitions)>> >>)
Topics(ts) == PyDict(<< <<"topics", ts>> >>)

KafkaDesired ==
    {Topics(PyList(<<Topic("a", 3)>>)),
     Topics(PyList(<<Topic("a", 2), Topic("b", 3)>>)),
     Topics(PyList(<<PyStr("x"), PyDict(<< <<"partitions", PyInt(3)>> >>)>>)),
     Topics(PyList(<<>>)),
     Topics(PyInt(1))}
KafkaLive == {PyDict(<< <<"topics", PyList(<<>>)>> >>)}

NestedY(n) == PyDict(<< <<"y", PyInt(n)>> >>)
GenericDesired ==
    {PyDict(<<>>),
     PyDict(<< <<"x", PyInt(1)>> >>),
     PyDict(<< <<"x", PyInt(1)>>, <<"n", NestedY(2)>> >>),
     PyDict(<< <<"x", PyNone>>, <<"l", PyList(<<PyInt(1)>>)>> >>),
     PyDict(<< <<"n", NestedY(2)>>, <<"n.y", PyInt(1)>> >>),
     Resources(PyList(<<Resource("aws_instance", "a", ValuesX1)>>))}
GenericLive ==
    {PyDict(<<>>),
     PyDict(<< <<"x", PyInt(1)>> >>),
     PyDict(<< <<"x", PyInt(2)>>, <<"n", NestedY(2)>> >>),
     PyDict(<< <<"n", NestedY(3)>>, <<"x", PyInt(1)>>, <<"z", PyInt(1)>>,
               <<"l", PyList(<<PyInt(1)>>)>> >>)}

\* snapshots that hold the well-known keys of several domains
MixedDesired ==
    {PyDict(<< <<"resources", PyList(<<Resource("aws_instance", "a", ValuesX1)>>)>>,
               <<"deployments", PyList(<<Deployment("default", "a", SpecReplicas)>>)>>,
               <<"topics", PyList(<<Topic("a", 3)>>)>> >>)}
MixedLive ==
    {PyDict(<< <<"topics", PyList(<<>>)>>, <<"deployments", PyList(<<>>)>>,
               <<"ec2_instances", PyList(<<>>)>> >>),
     PyDict(<< <<"topics", PyList(<<>>)>>, <<"deployments", PyList(<<>>)>> >>),
     PyDict(<< <<"topics", PyList(<<>>)>>, <<"resources", PyList(<<>>)>> >>),
     PyDict(<< <<"resources", PyList(<<>>)>> >>)}

\* the (desired_state, live_state) pairs of the model
Inputs ==
    (AwsDesired \X AwsLive) \cup (K8sDesired \X K8sLive)
        \cup (KafkaDesired \X KafkaLive) \cup (GenericDesired \X GenericLive)
        \cup (MixedDesired \X MixedLive)
        \cup {<<PyNone, PyDict(<<>>)>>, <<PyDict(<<>>), PyNone>>, <<PyNone, PyNone>>,
              <<PyList(<<>>), PyDict(<<>>)>>}

(***************************************************************************)
(* One DiffAnalyzer and the calls made on it.                              *)
(***************************************************************************)
NoCall == [made |-> FALSE]

\* DiffAnalyzer.__init__, before any call
AnalyzerInit ==
    /\ seen_drifts = {}
    /\ call = NoCall
    /\ ncalls = 0
    /\ returned = {}
    /\ emitted = {}

\* diff_analyzer.compute_diffs(desired_state, live_state); call keeps, as
\* history, what the call got and returned and what the call before it got
Call(desired_state, live_state, r) ==
    /\ seen_drifts' = r.seen
    /\ call' = [made |-> TRUE, desired |-> desired_state, live |-> live_state,
                exc |-> r.exc, caught |-> r.caught, result |-> r.diffs,
                seen_before |-> seen_drifts, first |-> ~call.made,
                repeat |-> /\ call.made
                           /\ call.desired = desired_state
                           /\ call.live = live_state,
                prev_result |-> IF call.made THEN call.result ELSE <<>>,
                prev_desired |-> IF call.made THEN call.desired ELSE PyNone,
                prev_live |-> IF call.made THEN call.live ELSE PyNone,
                returned_before |-> returned, log |-> r.log]
    /\ returned' = returned \cup SeqToSet(r.diffs)
    /\ emitted' = emitted \cup r.log
    /\ ncalls' = ncalls + 1

ComputeDiffs(desired_state, live_state) ==
    /\ ncalls < MaxCalls
    /\ Call(desired_state, live_state,
            compute_diffs(seen_drifts, desired_state, live_state))

FlattenIdle == flat_in = <<PyNone, ".">> /\ flat_out = [done |-> FALSE]

PolicyIdle == policies = PyNone /\ ev = [made |-> FALSE] /\ engine = "none"

ConfigIdle == config = PyNone /\ validated = [done |-> FALSE]

\* what a candidate policy path holds: nothing (Absent), a file yaml.safe_load
\* cannot parse (Unparseable), or the document yaml.safe_load returns (None for
\* an empty file)
Absent == [t |-> "absent", v |-> <<>>]
Unparseable == [t |-> "unparseable", v |-> <<>>]

\* the process before its first cycle
ProcessInit ==
    /\ cycles = 0
    /\ last_run = "none"
    /\ last_report = [made |-> FALSE]
    /\ reported_before = {}
    /\ process = "running"
    /\ run_log = <<>>
    /\ cwd = "start"
    /\ monitoring = [last_drift_count |-> 0]
    /\ cycle_log = <<>>
    /\ kafka_detector = [made |-> FALSE]
    /\ scheduler = [pc |-> "main", active |-> 0]
    /\ health = [up |-> FALSE, served |-> FALSE]

MainIdle ==
    /\ policy_files = <<Absent, Absent, Absent>>
    /\ repo_files = <<Absent, Absent>>
    /\ run_mode = "continuous"
    /\ ProcessInit

Init == AnalyzerInit /\ FlattenIdle /\ PolicyIdle /\ MainIdle /\ ConfigIdle

Next ==
    \E input \in Inputs :
        /\ ComputeDiffs(input[1], input[2])
        /\ UNCHANGED <<flattenVars, policyVars, mainVars, configVars>>

Spec == Init /\ [][Next]_vars

DriftIds(diffs) == {diffs[i].drift_id : i \in DOMAIN diffs}

\* C1: when compute_diffs is called twice in succession on one DiffAnalyzer
\* with identical (desired, live) input, the second call returns an empty
\* sequence, so no fingerprint of the first call is emitted again.
C1_SecondCallEmpty ==
    (call.made /\ call.repeat) =>
        /\ call.result = <<>>
        /\ DriftIds(call.result) \cap DriftIds(call.prev_result) = {}

\* C1 witness: the second of two identical calls returned nothing after the
\* first had returned records.
C1_Witness ==
    /\ call.made /\ call.repeat
    /\ call.prev_result # <<>>
    /\ call.result = <<>>

\* C3: no two records of the sequence a compute_diffs call returns share a
\* drift_id, whatever calls were made before.
C3_UniqueDriftIds ==
    call.made =>
        \A i, j \in DOMAIN call.result :
            i # j => call.result[i].drift_id # call.result[j].drift_id

\* C3 witness: a later call, on a snapshot that declares the same field of the
\* same resource twice, returned two records.
C3_Witness ==
    /\ call.made /\ ~call.first
    /\ call.desired = Resources(PyList(<<Resource("aws_instance", "a", ValuesX2Tags),
                                         Resource("aws_instance", "a", ValuesX1)>>))
    /\ Len(call.result) = 2

\* C4: compute_diffs never propagates an exception, and it returns an empty
\* sequence when desired_state or live_state is None or when an exception was
\* raised while routing or comparing.
C4_ErrorsGiveEmptyResult ==
    call.made =>
        /\ ~call.exc
        /\ (call.desired = PyNone \/ call.live = PyNone) => call.caught
        /\ call.caught => call.result = <<>>

\* C4 witness: a call on two mappings raised while comparing, after an earlier
\* item had been compared, and returned the empty sequence.
C4_Witness ==
    /\ call.made /\ call.caught
    /\ IsDict(call.desired) /\ IsDict(call.live)
    /\ seen_drifts # call.seen_before
    /\ call.result = <<>>

\* C5: on a fresh analyzer, a call routed to the generic comparator returns
\* exactly one record for each key k of flatten(desired) whose value differs
\* from flatten(live).get(k), and no other record; the record has field_path k,
\* the desired value as expected_value and the live value (None when the key
\* is missing) as actual_value.
C5_GenericComparator ==
    (/\ call.made /\ call.first
     /\ IsDict(call.desired) /\ IsDict(call.live)
     /\ Route(call.desired, call.live) = "generic") =>
        LET desired_flat == _flatten_dict(call.desired, "", ".").val
            live_flat == _flatten_dict(call.live, "", ".").val
            drifted == {k \in DictKeys(desired_flat) :
                            ~PyEq(DictAt(desired_flat, k), DictGet(live_flat, k, PyNone))}
        IN /\ Len(call.result) = Cardinality(drifted)
           /\ {call.result[i].field_path : i \in DOMAIN call.result} = drifted
           /\ \A i \in DOMAIN call.result :
                  /\ call.result[i].expected_value
                         = DictAt(desired_flat, call.result[i].field_path)
                  /\ call.result[i].actual_value
                         = DictGet(live_flat, call.result[i].field_path, PyNone)

\* C5 witness: a first call routed to the generic comparator returned a record
\* for a key missing in live and a record for a key whose live value differs,
\* while live held a key that desired does not.
C5_Witness ==
    /\ call.made /\ call.first
    /\ IsDict(call.desired) /\ IsDict(call.live)
    /\ Route(call.desired, call.live) = "generic"
    /\ \E i, j \in DOMAIN call.result :
           /\ call.result[i].actual_value = PyNone
           /\ call.result[j].actual_value # PyNone
    /\ DictKeys(_flatten_dict(call.live, "", ".").val)
           \ DictKeys(_flatten_dict(call.desired, "", ".").val) # {}

\* C5 witness of the equal case: desired == live gave no record.
C5_WitnessEqual ==
    /\ call.made /\ call.first
    /\ call.desired = call.live /\ call.desired = PyDict(<< <<"x", PyInt(1)>> >>)
    /\ call.result = <<>>

\* the comparator the stated order picks for two mappings
StatedRoute(desired_state, live_state) ==
    CASE "resources" \in DictKeys(desired_state)
             /\ "ec2_instances" \in DictKeys(live_state) -> "aws"
      [] OTHER ->
             CASE "deployments" \in DictKeys(desired_state) \cap DictKeys(live_state)
                      -> "kubernetes"
               [] OTHER ->
                      IF "topics" \in DictKeys(desired_state) \cap DictKeys(live_state)
                      THEN "kafka" ELSE "generic"

\* C16: every report a compute_diffs call constructs is constructed by one
\* comparator, the first in the order cloud, cluster, messaging whose keys the
\* snapshots hold, or the generic comparator when none matches.
C16_OneComparatorInOrder ==
    (call.made /\ IsDict(call.desired) /\ IsDict(call.live)) =>
        \A e \in call.log : e.domain = StatedRoute(call.desired, call.live)

\* C16 witness: a call on snapshots that match the cloud, the cluster and the
\* messaging route constructed reports, all of them in the cloud comparator.
C16_Witness ==
    /\ call.made
    /\ call.desired \in MixedDesired
    /\ {"ec2_instances", "deployments", "topics"} \subseteq DictKeys(call.live)
    /\ call.log # {}
    /\ \A e \in call.log : e.domain = "aws"

\* C16 witnesses of the other routes on the same desired snapshot.
C16_WitnessCluster ==
    /\ call.made /\ call.desired \in MixedDesired
    /\ call.log # {} /\ \A e \in call.log : e.domain = "kubernetes"

C16_WitnessMessaging ==
    /\ call.made /\ call.desired \in MixedDesired
    /\ call.log # {} /\ \A e \in call.log : e.domain = "kafka"

C16_WitnessGeneric ==
    /\ call.made /\ call.desired \in MixedDesired
    /\ call.log # {} /\ \A e \in call.log : e.domain = "generic"

\* C17: every record compute_diffs returns has severity WARNING, and has
\* drift_type AWS when the cloud comparator produced it, KUBERNETES when the
\* cluster comparator did and KAFKA when the messaging comparator did.
C17_RecordDefaultsByRoute ==
    call.made =>
        \A i \in DOMAIN call.result :
            /\ call.result[i].severity = "warning"
            /\ \A e \in call.log :
                   (/\ e.drift_id = call.result[i].drift_id
                    /\ e.domain \in {"aws", "kubernetes", "kafka"}) =>
                       call.result[i].drift_type = e.domain
            /\ \E e \in call.log : e.drift_id = call.result[i].drift_id

\* C17 witness: a call returned records of the messaging comparator.
C17_Witness ==
    /\ call.made /\ call.result # <<>>
    /\ \A e \in call.log : e.domain = "kafka"
    /\ \A i \in DOMAIN call.result : call.result[i].drift_type = "kafka"

\* C17 witnesses of the cloud and the cluster comparator.
C17_WitnessCloud ==
    /\ call.made /\ call.result # <<>>
    /\ \A e \in call.log : e.domain = "aws"

C17_WitnessCluster ==
    /\ call.made /\ call.result # <<>>
    /\ \A e \in call.log : e.domain = "kubernetes"

\* the collection a comparator iterates, empty when it is no list or mapping
CollectionKey(route) ==
    CASE route = "aws" -> "resources"
      [] route = "kubernetes" -> "deployments"
      [] OTHER -> "topics"

ItemsOf(route, desired_state) ==
    IF Iterate(DictGet(desired_state, CollectionKey(route), PyList(<<>>))).exc THEN <<>>
    ELSE Iterate(DictGet(desired_state, CollectionKey(route), PyList(<<>>))).val

\* the declared fields of an item: a resource's values, a deployment's spec,
\* a topic itself; no mapping for an item that has none
DeclaredFields(route, item) ==
    IF ~IsDict(item) THEN PyNone
    ELSE CASE route = "aws" -> DictGet(item, "values", PyDict(<<>>))
           [] route = "kubernetes" -> DictGet(item, "spec", PyDict(<<>>))
           [] OTHER -> item

\* the flattened declared fields of an item, key by key
FlattenedFields(route, item) ==
    IF _flatten_dict(DeclaredFields(route, item), "", ".").exc THEN <<>>
    ELSE _flatten_dict(DeclaredFields(route, item), "", ".").val.v

RECURSIVE SumOver(_, _, _)
SumOver(route, items, i) ==
    IF i > Len(items) THEN 0
    ELSE Len(FlattenedFields(route, items[i])) + SumOver(route, items, i + 1)

FirstCall(route) ==
    /\ call.made /\ call.first
    /\ IsDict(call.desired) /\ IsDict(call.live)
    /\ StatedRoute(call.desired, call.live) = route

DomainRoutes == {"aws", "kubernetes", "kafka"}

EmittedFields(route, item) ==
    CASE route = "aws" ->
             IF DictGet(item, "type", PyStr("")) = PyStr("aws_instance")
             THEN DictGet(item, "values", PyDict(<<>>)).v ELSE <<>>
      [] route = "kubernetes" ->
             IF Truthy(item) THEN FlattenedFields(route, item) ELSE <<>>
      [] OTHER -> FlattenedFields(route, item)

ItemName(route, item) ==
    CASE route = "aws" -> Format(DictGet(item, "name", PyStr("")))
      [] route = "kubernetes" ->
             Format(DictGet(DictGet(item, "metadata", PyDict(<<>>)), "name", PyStr("unknown")))
      [] OTHER -> Format(DictGet(item, "name", PyStr("unknown")))

ItemNamespace(item) ==
    Format(DictGet(DictGet(item, "metadata", PyDict(<<>>)), "namespace", PyStr("default")))

Candidate(route, item, entry) ==
    [field_path |-> entry[1], expected_value |-> entry[2],
     resource_id |->
         CASE route = "aws" -> "aws_instance." \o ItemName(route, item)
           [] route = "kubernetes" -> ItemNamespace(item) \o "/" \o ItemName(route, item)
           [] OTHER -> ItemName(route, item),
     drift_id |->
         CASE route = "aws" -> aws_drift_id("aws_instance", ItemName(route, item), entry[1])
           [] route = "kubernetes" ->
                  k8s_drift_id(ItemNamespace(item), ItemName(route, item), entry[1])
           [] OTHER -> kafka_drift_id(ItemName(route, item), entry[1])]

\* an item the comparator cannot read: a resource that is no mapping or whose
\* values are none, a deployment whose metadata or spec is no mapping
Unreadable(route, item) ==
    CASE route = "aws" ->
             \/ ~IsDict(item)
             \/ /\ DictGet(item, "type", PyStr("")) = PyStr("aws_instance")
                /\ ~IsDict(DictGet(item, "values", PyDict(<<>>)))
      [] route = "kubernetes" ->
             /\ IsDict(item) /\ Truthy(item)
             /\ \/ ~IsDict(DictGet(item, "metadata", PyDict(<<>>)))
                \/ ~IsDict(DictGet(item, "spec", PyDict(<<>>)))
      [] OTHER -> FALSE

Readable(route, desired_state) ==
    /\ ~Iterate(DictGet(desired_state, CollectionKey(route), PyList(<<>>))).exc
    /\ \A i \in DOMAIN ItemsOf(route, desired_state) :
           ~Unreadable(route, ItemsOf(route, desired_state)[i])

\* the candidates of the items from the i-th on, in the comparator's order
RECURSIVE Candidates(_, _, _)
Candidates(route, items, i) ==
    IF i > Len(items) THEN <<>>
    ELSE (IF ~IsDict(items[i]) THEN <<>>
          ELSE [j \in DOMAIN EmittedFields(route, items[i]) |->
                   Candidate(route, items[i], EmittedFields(route, items[i])[j])])
         \o Candidates(route, items, i + 1)

\* the first candidate of every fingerprint
RECURSIVE FirstOfFingerprint(_, _)
FirstOfFingerprint(candidates, ids) ==
    IF candidates = <<>> THEN <<>>
    ELSE IF Head(candidates).drift_id \in ids
         THEN FirstOfFingerprint(Tail(candidates), ids)
         ELSE <<Head(candidates)>>
              \o FirstOfFingerprint(Tail(candidates), ids \cup {Head(candidates).drift_id})

AsCandidate(r) ==
    [field_path |-> r.field_path, expected_value |-> r.expected_value,
     resource_id |-> r.resource_id, drift_id |-> r.drift_id]

C19_WitnessNotFlattened ==
    /\ FirstCall("aws")
    /\ \E k \in DOMAIN call.result : IsDict(call.result[k].expected_value)

C19_WitnessOtherType ==
    /\ FirstCall("aws")
    /\ SumOver("aws", ItemsOf("aws", call.desired), 1) = 1
    /\ ~call.caught /\ call.result = <<>>

C19_WitnessDropped ==
    /\ FirstCall("aws")
    /\ ~call.caught
    /\ Len(call.result) < Len(Candidates("aws", ItemsOf("aws", call.desired), 1))

C19_WitnessCluster ==
    /\ FirstCall("kubernetes")
    /\ \E k \in DOMAIN call.result : call.result[k].field_path = "selector.app"
    /\ Len(call.result) = 3

C19_WitnessMessaging ==
    /\ FirstCall("kafka")
    /\ Len(call.result) = 4

\* an item with nothing malformed in it
WellFormed(route, item) == IsDict(item) /\ ~Unreadable(route, item)

\* C20: on a fresh analyzer, whatever is malformed in one item of the desired
\* collection, the records of its well-formed sibling items are returned by
\* the same call.
C20_SiblingRecordsReturned ==
    \A route \in DomainRoutes :
        FirstCall(route) =>
            \A i \in DOMAIN ItemsOf(route, call.desired) :
                WellFormed(route, ItemsOf(route, call.desired)[i]) =>
                    \A j \in DOMAIN EmittedFields(route, ItemsOf(route, call.desired)[i]) :
                        \E k \in DOMAIN call.result :
                            call.result[k].drift_id =
                                Candidate(route, ItemsOf(route, call.desired)[i],
                                          EmittedFields(route, ItemsOf(route, call.desired)[i])[j]).drift_id

\* the items the cluster and the messaging comparator skip do degrade locally:
\* a deployment that is null, a string or an empty mapping, a topic that is a
\* string
C20_SkippedItemIsLocal ==
    /\ FirstCall("kubernetes")
    /\ \E i \in DOMAIN ItemsOf("kubernetes", call.desired) :
           ItemsOf("kubernetes", call.desired)[i] = PyNone
    /\ ~call.caught /\ call.result # <<>>

\* a null resource entry after a well-formed resource: the call returns
\* nothing, and the well-formed resource's fingerprint stays in seen_drifts
C20_NullResourceLosesSibling ==
    /\ FirstCall("aws")
    /\ \E i \in DOMAIN ItemsOf("aws", call.desired) :
           ItemsOf("aws", call.desired)[i] = PyNone
    /\ \E i \in DOMAIN ItemsOf("aws", call.desired) :
           /\ WellFormed("aws", ItemsOf("aws", call.desired)[i])
           /\ EmittedFields("aws", ItemsOf("aws", call.desired)[i]) # <<>>
    /\ call.caught /\ call.result = <<>>
    /\ seen_drifts # {}

\* a deployment whose metadata is null after a well-formed deployment
C20_NullMetadataLosesSibling ==
    /\ FirstCall("kubernetes")
    /\ \E i \in DOMAIN ItemsOf("kubernetes", call.desired) :
           /\ IsDict(ItemsOf("kubernetes", call.desired)[i])
           /\ DictGet(ItemsOf("kubernetes", call.desired)[i], "metadata", PyDict(<<>>)) = PyNone
    /\ \E i \in DOMAIN ItemsOf("kubernetes", call.desired) :
           WellFormed("kubernetes", ItemsOf("kubernetes", call.desired)[i])
    /\ call.caught /\ call.result = <<>>
    /\ seen_drifts # {}

\* C22: no compute_diffs call on the analyzer removes a fingerprint from
\* seen_drifts, and when a call has returned every fingerprint of its result is
\* in seen_drifts.
C22_SeenDriftsOnlyGrows ==
    [][/\ seen_drifts \subseteq seen_drifts'
       /\ DriftIds(call'.result) \subseteq seen_drifts']_vars

\* C22 witness: a second call on the analyzer found fingerprints in seen_drifts,
\* returned records and added their fingerprints
C22_Witness ==
    /\ call.made /\ ~call.first
    /\ call.seen_before # {}
    /\ call.result # <<>>
    /\ call.seen_before \subseteq seen_drifts
    /\ seen_drifts # call.seen_before
    /\ DriftIds(call.result) \subseteq seen_drifts

\* C24: every fingerprint in seen_drifts is the fingerprint of a record some
\* compute_diffs call of the analyzer has returned, and a call that ended in
\* the except clause left seen_drifts as it was before the call.
C24_SeenDriftsWereReturned ==
    /\ seen_drifts \subseteq {r.drift_id : r \in returned}
    /\ (call.made /\ call.caught) => seen_drifts = call.seen_before

\* a call ended in the except clause after a comparator had added the
\* fingerprint of a well-formed item: nothing was returned, the fingerprint is
\* in seen_drifts
C24_FingerprintKeptNothingReturned ==
    /\ call.made /\ call.first /\ call.caught
    /\ call.result = <<>> /\ returned = {}
    /\ seen_drifts # {}

\* the same snapshot without the malformed item, given to the analyzer next,
\* returns nothing for the well-formed item
C24_NeverReportedLater ==
    /\ call.made /\ ~call.first /\ ~call.caught
    /\ call.prev_result = <<>> /\ call.result = <<>> /\ returned = {}
    /\ call.log = {}
    /\ call.seen_before # {}
    /\ call.desired \in AwsDesired
    /\ Len(ItemsOf("aws", call.desired)) = 1
    /\ Len(EmittedFields("aws", ItemsOf("aws", call.desired)[1])) = 1

\* the identity of a declared field: the item's name (with its namespace, for
\* a deployment) and the field path
Identity(route, item, entry) ==
    <<IF route = "kubernetes" THEN ItemNamespace(item) ELSE "",
      ItemName(route, item), entry[1]>>

\* C25: on a fresh analyzer, two declared fields of one comparator with
\* different identities have different fingerprints, and both are returned.
C25_DistinctIdentityDistinctFingerprint ==
    \A route \in DomainRoutes :
        (FirstCall(route) /\ Readable(route, call.desired)) =>
            \A i1, i2 \in {i \in DOMAIN ItemsOf(route, call.desired) :
                              IsDict(ItemsOf(route, call.desired)[i])} :
                \A j1 \in DOMAIN EmittedFields(route, ItemsOf(route, call.desired)[i1]) :
                    \A j2 \in DOMAIN EmittedFields(route, ItemsOf(route, call.desired)[i2]) :
                        Identity(route, ItemsOf(route, call.desired)[i1],
                                 EmittedFields(route, ItemsOf(route, call.desired)[i1])[j1])
                        # Identity(route, ItemsOf(route, call.desired)[i2],
                                   EmittedFields(route, ItemsOf(route, call.desired)[i2])[j2])
                        =>
                        /\ Candidate(route, ItemsOf(route, call.desired)[i1],
                                     EmittedFields(route, ItemsOf(route, call.desired)[i1])[j1]).drift_id
                           # Candidate(route, ItemsOf(route, call.desired)[i2],
                                       EmittedFields(route, ItemsOf(route, call.desired)[i2])[j2]).drift_id
                        /\ \E k \in DOMAIN call.result :
                               /\ call.result[k].resource_id =
                                      Candidate(route, ItemsOf(route, call.desired)[i2],
                                                EmittedFields(route, ItemsOf(route, call.desired)[i2])[j2]).resource_id
                               /\ call.result[k].field_path =
                                      EmittedFields(route, ItemsOf(route, call.desired)[i2])[j2][1]

\* two resources with different names and different fields whose digest input
\* is the same string: one record is returned, for the first resource only
C25_SecondResourceDropped ==
    /\ FirstCall("aws") /\ ~call.caught
    /\ Len(ItemsOf("aws", call.desired)) = 2
    /\ ItemName("aws", ItemsOf("aws", call.desired)[1])
           # ItemName("aws", ItemsOf("aws", call.desired)[2])
    /\ Len(call.result) = 1
    /\ call.result[1].resource_id
           = "aws_instance." \o ItemName("aws", ItemsOf("aws", call.desired)[1])

(***************************************************************************)
(* One DiffAnalyzer called again and again on snapshots of the same        *)
(* resources whose values change from call to call.                        *)
(***************************************************************************)
RepeatInputs ==
    ({PyDict(<< <<"x", PyInt(1)>> >>), PyDict(<< <<"x", PyInt(2)>>, <<"n", NestedY(2)>> >>)}
        \X {PyDict(<<>>), PyDict(<< <<"x", PyInt(1)>> >>),
            PyDict(<< <<"x", PyInt(2)>>, <<"n", NestedY(2)>> >>)})
    \cup ({Resources(PyList(<<Resource("aws_instance", "a", ValuesX1)>>)),
           Resources(PyList(<<Resource("aws_instance", "a", ValuesX2Tags)>>))}
          \X AwsLive)
    \cup ({Topics(PyList(<<Topic("a", 3)>>)), Topics(PyList(<<Topic("a", 2)>>))}
          \X KafkaLive)

NextRepeat ==
    \E input \in RepeatInputs :
        /\ ncalls < MaxRepeats
        /\ Call(input[1], input[2], compute_diffs(seen_drifts, input[1], input[2]))
        /\ UNCHANGED <<flattenVars, policyVars, mainVars, configVars>>

SpecRepeat == Init /\ [][NextRepeat]_vars

\* the two records are about the same field of the same resource
SameField(r, q) ==
    /\ r.drift_type = q.drift_type
    /\ r.resource_type = q.resource_type
    /\ r.resource_id = q.resource_id
    /\ r.field_path = q.field_path

\* C11: once a call on an analyzer has returned a record for a field, no later
\* call on the same analyzer returns a record for that field, whatever the
\* desired and live values of the field have become in the meantime.
C11_ChangedValueNotReported ==
    call.made =>
        \A i \in DOMAIN call.result :
            \A q \in call.returned_before : ~SameField(call.result[i], q)

\* C11 witness: the first call reported field x (live lacked it), in the second
\* call the drift was resolved (desired = live), and the third call, in which
\* x differs again with another live value, returned no record.
C11_Witness ==
    /\ ncalls = 3
    /\ call.prev_desired = PyDict(<< <<"x", PyInt(1)>> >>)
    /\ call.prev_live = call.prev_desired
    /\ call.desired = PyDict(<< <<"x", PyInt(1)>> >>)
    /\ call.live = PyDict(<< <<"x", PyInt(2)>>, <<"n", NestedY(2)>> >>)
    /\ \E q \in call.returned_before :
           /\ q.field_path = "x" /\ q.resource_type = "generic"
           /\ q.actual_value = PyNone
    /\ call.result = <<>>

(***************************************************************************)
(* _flatten_dict applied to every input.                                   *)
(***************************************************************************)
InitFlatten == AnalyzerInit /\ FlattenInit /\ PolicyIdle /\ MainIdle /\ ConfigIdle

NextFlatten == Flatten /\ UNCHANGED <<analyzerVars, policyVars, mainVars, configVars>>

SpecFlatten == InitFlatten /\ [][NextFlatten]_vars

\* the leaves (values that are no mapping) of a mapping in traversal order,
\* each with the path of keys leading to it from the root
RECURSIVE Leaves(_, _)
Leaves(items, path) ==
    IF items = <<>> THEN <<>>
    ELSE LET p == Append(path, Head(items)[1])
             v == Head(items)[2]
             here == IF IsDict(v) THEN Leaves(v.v, p) ELSE << <<p, v>> >>
         IN here \o Leaves(Tail(items), path)

\* sep.join(path)
RECURSIVE Join(_, _)
Join(path, sep) ==
    IF path = <<>> THEN ""
    ELSE IF Len(path) = 1 THEN path[1]
    ELSE path[1] \o sep \o Join(Tail(path), sep)

\* the path joined one key at a time, the separator being put only after a
\* non-empty prefix
RECURSIVE JoinNonEmpty(_, _)
JoinNonEmpty(path, sep) ==
    IF path = <<>> THEN ""
    ELSE LET n == Len(path)
             prefix == JoinNonEmpty(SubSeq(path, 1, n - 1), sep)
         IN IF prefix # "" THEN prefix \o sep \o path[n] ELSE path[n]

FlattenReturned == flat_out.done /\ ~flat_out.exc

\* C6 as stated: _flatten_dict returns one entry per leaf of the mapping, keyed
\* by the separator-joined path of keys from the root, with the leaf's value
\* (a scalar or a sequence) unchanged.
C6_OneEntryPerLeaf ==
    FlattenReturned =>
        LET ls == Leaves(flat_in[1].v, <<>>)
            out == flat_out.val
        IN /\ Len(out.v) = Len(ls)
           /\ \A i \in DOMAIN ls :
                  /\ HasKey(out, Join(ls[i][1], flat_in[2]))
                  /\ DictAt(out, Join(ls[i][1], flat_in[2])) = ls[i][2]

\* C6 amended: _flatten_dict returns one entry per distinct leaf key, where a
\* leaf's key is its path joined one key at a time with the separator put only
\* after a non-empty prefix; the entry holds the value, unchanged, of the last
\* leaf in traversal order that has the key; no entry holds a mapping.
C6_OneEntryPerLeafKey ==
    FlattenReturned =>
        LET ls == Leaves(flat_in[1].v, <<>>)
            sep == flat_in[2]
            out == flat_out.val
            LastWith(k) == CHOOSE i \in DOMAIN ls :
                               /\ JoinNonEmpty(ls[i][1], sep) = k
                               /\ \A j \in DOMAIN ls :
                                      JoinNonEmpty(ls[j][1], sep) = k => j <= i
        IN /\ DictKeys(out) = {JoinNonEmpty(ls[i][1], sep) : i \in DOMAIN ls}
           /\ Len(out.v) = Cardinality(DictKeys(out))
           /\ \A k \in DictKeys(out) :
                  /\ DictAt(out, k) = ls[LastWith(k)][2]
                  /\ ~IsDict(DictAt(out, k))

\* C6 witness: a three-level mapping with a sequence leaf has been flattened
\* with the default separator.
C6_Witness ==
    /\ FlattenReturned
    /\ flat_in[2] = "."
    /\ HasKey(flat_in[1], "a")
    /\ HasKey(flat_out.val, "a.b.b")
    /\ \E k \in DictKeys(flat_out.val) : DictAt(flat_out.val, k).t = "list"
    /\ Len(flat_out.val.v) = 2

(***************************************************************************)
(* One PolicyEngine and the evaluate calls made on it.                     *)
(***************************************************************************)
Rule(environment) ==
    PyDict(<< <<"environment", PyStr(environment)>>,
              <<"namespaces", PyList(<<>>)>>, <<"resources", PyList(<<>>)>> >>)
Policy(auto_apply, ignore, critical) ==
    PyDict(<< <<"remediation", PyDict(<< <<"auto_apply", PyList(auto_apply)>> >>)>>,
              <<"drift_rules", PyDict(<< <<"ignore", PyList(ignore)>>,
                                         <<"critical", PyList(critical)>> >>)>> >>)

\* the rule set _load_policies returns when no policies file exists
DefaultPolicies ==
    PyDict(<< <<"remediation",
                PyDict(<< <<"auto_apply",
                            PyList(<<PyDict(<< <<"environment", PyStr("dev")>>,
                                               <<"namespaces",
                                                 PyList(<<PyStr("default"),
                                                          PyStr("staging")>>)>>,
                                               <<"resources",
                                                 PyList(<<PyStr("*")>>)>> >>)>>)>> >>)>>,
              <<"drift_rules",
                PyDict(<< <<"ignore", PyList(<<>>)>>, <<"critical", PyList(<<>>)>>,
                          <<"warning", PyList(<<>>)>> >>)>> >>)

\* the documents yaml.safe_load can hand to the engine
PolicyDocs ==
    {DefaultPolicies,
     Policy(<<Rule("dev"), Rule("prod")>>,
            <<PyStr("aws_instance.tags.Terraform"), PyStr("k8s_pod.status.hostIP")>>,
            <<PyStr("aws_security_group.ingress"),
              PyStr("k8s_deployment.spec.template.spec.containers.image")>>),
     Policy(<<Rule("prod"), Rule("dev")>>,
            <<PyStr("image")>>, <<PyStr("k8s_deployment"), PyStr("ingress")>>),
     Policy(<<Rule("prod")>>, <<>>, <<PyStr("tags"), PyStr("image")>>),
     Policy(<<>>, <<PyStr("")>>, <<PyStr("ingress")>>),
     Policy(<<PyDict(<< <<"namespaces", PyList(<<>>)>> >>), Rule("dev")>>,
            <<PyStr("tags")>>, <<>>),
     Policy(<<Rule("dev")>>, <<PyStr("ingress"), PyNone>>, <<>>),
     PyDict(<< <<"drift_rules", PyNone>> >>),
     PyDict(<<>>),
     PyNone}

WithSeverity(report, severity) == [report EXCEPT !.severity = severity]

SampleReports ==
    {DriftReport("id1", "aws_instance", "aws_instance.a", "aws", "tags.Terraform",
                 PyStr("true"), PyStr("false")),
     DriftReport("id2", "aws_security_group", "sg-1", "aws", "ingress",
                 PyList(<<PyInt(1)>>), PyList(<<PyInt(1), PyInt(2)>>)),
     DriftReport("id3", "aws_instance", "aws_instance.b", "aws", "instance_type",
                 PyStr("t2.micro"), PyStr("live_value")),
     DriftReport("id4", "k8s_deployment", "default/a", "kubernetes", "spec.image",
                 PyStr("v1"), PyStr("live_value")),
     WithSeverity(DriftReport("id5", "kafka_topic", "a", "kafka", "partitions",
                              PyInt(3), PyStr("live_value")), "safe")}

\* the lists of at most n reports
RECURSIVE ReportLists(_)
ReportLists(n) ==
    IF n = 0 THEN {<<>>}
    ELSE ReportLists(n - 1) \cup
         {Append(l, r) : l \in {x \in ReportLists(n - 1) : Len(x) = n - 1},
                         r \in SampleReports}

\* PolicyEngine.__init__ with what _load_policies returned
PolicyInit ==
    /\ policies \in PolicyDocs
    /\ ev = [made |-> FALSE]
    /\ engine = "ready"

\* policy_engine.evaluate(drift_reports)
Evaluate(drift_reports) ==
    /\ LET r == evaluate(policies, drift_reports)
       IN ev' = [made |-> TRUE, input |-> drift_reports, exc |-> r.exc,
                 reports |-> r.reports, actions |-> r.actions]
    /\ UNCHANGED <<policies, engine>>

InitPolicy == AnalyzerInit /\ FlattenIdle /\ PolicyInit /\ MainIdle /\ ConfigIdle

NextPolicy ==
    \E drift_reports \in ReportLists(MaxReports) :
        /\ Evaluate(drift_reports)
        /\ UNCHANGED <<analyzerVars, flattenVars, mainVars, configVars>>

SpecPolicy == InitPolicy /\ [][NextPolicy]_vars

Evaluated == ev.made /\ ~ev.exc

\* the strings of a list of the rule set, read from the document
Patterns(pol, key) ==
    LET rules == DictGet(pol, "drift_rules", PyDict(<<>>))
        lst == DictGet(rules, key, PyList(<<>>))
    IN {lst.v[i].v : i \in {j \in DOMAIN lst.v : lst.v[j].t = "str"}}

Matches(pol, key, report) ==
    \E pattern \in Patterns(pol, key) :
        Contains(pattern, report.resource_type \o "." \o report.field_path)

\* C7: the severity evaluate assigns to a record is IGNORED if an ignore
\* pattern is a substring of "{resource_type}.{field_path}", otherwise CRITICAL
\* if a critical pattern is, otherwise WARNING; SAFE is never assigned.
C7_SeverityPrecedence ==
    Evaluated =>
        \A i \in DOMAIN ev.reports :
            /\ ev.reports[i].severity =
                   IF Matches(policies, "ignore", ev.input[i]) THEN "ignored"
                   ELSE IF Matches(policies, "critical", ev.input[i]) THEN "critical"
                   ELSE "warning"
            /\ ev.reports[i].severity # "safe"

\* C7 witness: a record that matches an ignore pattern and a critical pattern
\* was classified IGNORED.
C7_Witness ==
    /\ Evaluated
    /\ \E i \in DOMAIN ev.reports :
           /\ Matches(policies, "ignore", ev.input[i])
           /\ Matches(policies, "critical", ev.input[i])
           /\ Patterns(policies, "ignore") # {""}
           /\ ev.reports[i].severity = "ignored"

\* whether the auto_apply list of the document holds a rule for 'dev'
HasDevRule(pol) ==
    LET lst == DictGet(DictGet(pol, "remediation", PyDict(<<>>)),
                       "auto_apply", PyList(<<>>))
    IN \E i \in DOMAIN lst.v :
           /\ HasKey(lst.v[i], "environment")
           /\ DictAt(lst.v[i], "environment") = PyStr("dev")

\* C8: every action evaluate returns has action_type 'remediate' and
\* auto_apply true iff the auto_apply list holds, at any position, a rule whose
\* environment is 'dev'; otherwise it has action_type 'alert' and auto_apply
\* false.
C8_ActionKind ==
    Evaluated =>
        \A i \in DOMAIN ev.actions :
            /\ ev.actions[i].auto_apply = HasDevRule(policies)
            /\ ev.actions[i].action_type =
                   IF HasDevRule(policies) THEN "remediate" ELSE "alert"

\* C8 witness: with the 'dev' rule second in the list, a record got a
\* 'remediate' action.
C8_Witness ==
    /\ Evaluated
    /\ policies # PyNone
    /\ LET lst == DictGet(DictGet(policies, "remediation", PyDict(<<>>)),
                          "auto_apply", PyList(<<>>))
       IN Len(lst.v) = 2 /\ lst.v[1] = Rule("prod") /\ lst.v[2] = Rule("dev")
    /\ ev.actions # <<>>
    /\ ev.actions[1].action_type = "remediate" /\ ev.actions[1].auto_apply

\* C9: evaluate returns exactly one action per input record, in input order,
\* whatever the record's severity; the i-th action copies resource_type and
\* resource_id of the i-th record and is described as
\* "Drift detected in {resource_type}.{field_path}".
C9_OneActionPerRecord ==
    Evaluated =>
        /\ Len(ev.actions) = Len(ev.input)
        /\ \A i \in DOMAIN ev.actions :
               /\ ev.actions[i].resource_type = ev.input[i].resource_type
               /\ ev.actions[i].resource_id = ev.input[i].resource_id
               /\ ev.actions[i].description =
                      "Drift detected in " \o ev.input[i].resource_type \o "."
                          \o ev.input[i].field_path

\* C9 witness: of two records, the first classified IGNORED, each got its action.
C9_Witness ==
    /\ Evaluated
    /\ Len(ev.input) = 2 /\ Len(ev.actions) = 2
    /\ ev.reports[1].severity = "ignored"
    /\ ev.reports[2].severity # "ignored"
    /\ ev.input[1].resource_id # ev.input[2].resource_id

(***************************************************************************)
(* PolicyEngine._load_policies, Reporter.report and run_drift_detection    *)
(***************************************************************************)
\* files[i]: the document at the i-th candidate path, or Absent
RECURSIVE _load_policies_last_path(_)
_load_policies_last_path(files) ==
    IF files = <<>> THEN [exc |-> FALSE, val |-> DefaultPolicies]
    ELSE IF files[Len(files)].t # "absent"
         THEN [exc |-> files[Len(files)] = Unparseable, val |-> files[Len(files)]]
    ELSE _load_policies_last_path(SubSeq(files, 1, Len(files) - 1))

RECURSIVE _load_policies(_)
_load_policies(files) ==
    IF files = <<>> THEN [exc |-> FALSE, val |-> DefaultPolicies]
    ELSE IF Head(files).t # "absent"
         THEN IF Head(files) = Unparseable THEN [exc |-> TRUE, val |-> PyNone]
              ELSE [exc |-> FALSE, val |-> Head(files)]
    ELSE _load_policies(Tail(files))

\* unique_reports: the first report of each drift_id, in order
RECURSIVE unique_reports(_, _)
unique_reports(drift_reports, ids) ==
    IF drift_reports = <<>> THEN <<>>
    ELSE IF Head(drift_reports).drift_id \in ids
         THEN unique_reports(Tail(drift_reports), ids)
         ELSE <<Head(drift_reports)>>
                  \o unique_reports(Tail(drift_reports),
                                    ids \cup {Head(drift_reports).drift_id})

\* report_data, as Reporter.report builds it
report_data(drift_reports, actions) ==
    [drift_reports |-> unique_reports(drift_reports, {}), actions |-> actions]

\* for diff in aws_diffs: monitoring.record_drift(resource_type, severity), and
\* the same for the k8s and kafka diffs: the labels of every call, in order
record_drifts(diffs) ==
    [i \in DOMAIN diffs |->
        [drift_id |-> diffs[i].drift_id, resource_type |-> diffs[i].resource_type,
         severity |-> diffs[i].severity]]

\* monitoring.evaluate_alerts(): the names of the alerts that are active
evaluate_alerts(state) == IF state.last_drift_count > 10 THEN {"HighDriftRate"} ELSE {}

\* possible_paths as os.path.exists resolves them: the first and the third are
\* relative to the working directory, which get_desired_state changes to the
\* cloned repository
possible_paths(dir, files, repo) ==
    IF dir = "start" THEN files ELSE <<repo[1], files[2], repo[2]>>

NoDiffs(seen) == [exc |-> FALSE, caught |-> FALSE, diffs |-> <<>>, seen |-> seen, log |-> {}]

NoActions == [exc |-> FALSE, reports |-> <<>>, actions |-> <<>>]

\* load_config: config['kafka']['bootstrap_servers'] after the environment
\* override, os.getenv(name, config['kafka'].get(key, 'localhost:9092'))
load_bootstrap_servers(file, env) ==
    IF env # Absent THEN env
    ELSE IF file # Absent THEN file
    ELSE PyStr("localhost:9092")

\* run_drift_detection: KafkaDetector(config) is constructed if the loaded
\* bootstrap_servers is truthy; kafka_enabled unless the constructor raised
start_kafka(snap) ==
    LET kafka_bootstrap_servers ==
            load_bootstrap_servers(snap.kafka_start.file, snap.kafka_start.env)
    IN [made |-> TRUE,
        file |-> snap.kafka_start.file,
        env |-> snap.kafka_start.env,
        bootstrap_servers |-> kafka_bootstrap_servers,
        constructed |-> Truthy(kafka_bootstrap_servers)
                            /\ snap.kafka_start.init = "ok",
        kafka_enabled |-> Truthy(kafka_bootstrap_servers)
                              /\ snap.kafka_start.init = "ok"]

\* reporter.report(all_diffs, all_actions) on the three results and their
\* evaluations (evaluate has set the severity of the diffs in place); exc: the
\* cycle raised, at: the step that raised
cycle_report(failed, aws, k8s, kafka, aws_ev, k8s_ev, kafka_ev) ==
    [exc |-> \/ aws.exc \/ k8s.exc \/ kafka.exc
             \/ aws_ev.exc \/ k8s_ev.exc \/ kafka_ev.exc
             \/ failed = "report",
     at |-> IF aws.exc \/ k8s.exc \/ kafka.exc THEN "compute"
            ELSE IF aws_ev.exc \/ k8s_ev.exc \/ kafka_ev.exc THEN "evaluate"
            ELSE IF failed = "report" THEN "report"
            ELSE "none",
     seen |-> kafka.seen,
     returned |-> SeqToSet(aws.diffs \o k8s.diffs \o kafka.diffs),
     log |-> aws.log \cup k8s.log \cup kafka.log,
     recorded |-> record_drifts(aws.diffs \o k8s.diffs \o kafka.diffs),
     report |-> report_data(aws_ev.reports \o k8s_ev.reports \o kafka_ev.reports,
                            aws_ev.actions \o k8s_ev.actions \o kafka_ev.actions)]

\* policy_engine.evaluate on each of the three results
cycle_evaluate(pol, snap, aws, k8s, kafka) ==
    cycle_report(snap.failed, aws, k8s, kafka,
                 evaluate(pol, aws.diffs), evaluate(pol, k8s.diffs),
                 IF start_kafka(snap).kafka_enabled THEN evaluate(pol, kafka.diffs) ELSE NoActions)

\* diff_analyzer.compute_diffs on the kafka states, if kafka is enabled
cycle_kafka(pol, snap, aws, k8s) ==
    cycle_evaluate(pol, snap, aws, k8s,
                   IF start_kafka(snap).kafka_enabled
                   THEN compute_diffs(k8s.seen, snap.kafka[1], snap.kafka[2])
                   ELSE NoDiffs(k8s.seen))

\* diff_analyzer.compute_diffs on the k8s states
cycle_k8s(pol, snap, aws) ==
    cycle_kafka(pol, snap, aws, compute_diffs(aws.seen, snap.k8s[1], snap.k8s[2]))

\* a cycle that raised before the analyzer was called
cycle_raised(at, seen) ==
    [exc |-> TRUE, at |-> at, seen |-> seen, returned |-> {}, log |-> {},
     recorded |-> <<>>, report |-> report_data(<<>>, <<>>)]

\* one cycle on the snapshots the providers returned: a DiffAnalyzer constructed
\* with the given seen_drifts computes the three domains in turn, the
\* PolicyEngine evaluates each result, and the Reporter gets the whole; the
\* cycle ends early when PolicyEngine(config) or a provider raises
cycle_engine(loaded, seen, snap) ==
    IF loaded.exc THEN cycle_raised("engine", seen)
    ELSE IF snap.failed = "fetch" THEN cycle_raised("fetch", seen)
    ELSE cycle_k8s(loaded.val, snap, compute_diffs(seen, snap.aws[1], snap.aws[2]))

cycle_with_analyzer(seen, files, snap) ==
    cycle_engine(_load_policies(files), seen, snap)

\* diff_analyzer = DiffAnalyzer() in every cycle: the seen_drifts of the cycle
\* before are not the ones this cycle starts from
run_cycle(seen, files, snap) == cycle_with_analyzer({}, files, snap)

(***************************************************************************)
(* A PolicyEngine constructed from the candidate policy paths, and the     *)
(* evaluate calls made on it.                                              *)
(***************************************************************************)
EnginePolicyFiles ==
    {<<Absent, Absent, Absent>>,
     <<Absent, Policy(<<Rule("prod")>>, <<PyStr("tags")>>, <<PyStr("ingress")>>), Absent>>,
     <<Policy(<<Rule("prod")>>, <<PyStr("tags")>>, <<PyStr("ingress")>>),
       Policy(<<Rule("dev")>>, <<>>, <<PyStr("image")>>), Absent>>,
     <<Absent, Policy(<<Rule("dev")>>, <<>>, <<PyStr("image")>>), DefaultPolicies>>,
     <<Unparseable, Absent, Absent>>,
     <<Absent, Unparseable, DefaultPolicies>>,
     <<DefaultPolicies, Unparseable, Absent>>,
     <<PyNone, Absent, Absent>>,
     <<Absent, Absent, PyNone>>}

EngineInit ==
    /\ policy_files \in EnginePolicyFiles
    /\ repo_files = <<Absent, Absent>>
    /\ PolicyIdle

\* policy_engine = PolicyEngine(config)
Construct(loaded) ==
    /\ engine = "none"
    /\ IF loaded.exc
       THEN engine' = "raised" /\ UNCHANGED policies
       ELSE engine' = "ready" /\ policies' = loaded.val
    /\ UNCHANGED <<ev, policy_files, repo_files>>

InitEngine ==
    /\ AnalyzerInit /\ FlattenIdle /\ EngineInit
    /\ run_mode = "continuous" /\ ProcessInit /\ ConfigIdle

NextEngine ==
    \/ /\ Construct(_load_policies(policy_files))
       /\ UNCHANGED <<analyzerVars, flattenVars, processVars, configVars>>
    \/ \E drift_reports \in ReportLists(MaxReports) :
           /\ engine = "ready"
           /\ Evaluate(drift_reports)
           /\ UNCHANGED <<analyzerVars, flattenVars, mainVars, configVars>>

SpecEngine == InitEngine /\ [][NextEngine]_vars

NoPolicyFile == \A i \in DOMAIN policy_files : policy_files[i] = Absent

\* the content of the first candidate path that exists
FirstPolicyFile ==
    policy_files[CHOOSE i \in DOMAIN policy_files :
                     /\ policy_files[i] # Absent
                     /\ \A j \in 1..(i - 1) : policy_files[j] = Absent]

\* C12: when no candidate policy path exists, constructing the PolicyEngine
\* does not raise and gives it the built-in rule set, so evaluate does not raise
\* and gives every record severity WARNING and an action 'remediate' with
\* auto_apply true; when candidate paths exist, the engine holds the document of
\* the first of them in the list.
C12_DefaultAndFirstPath ==
    /\ (engine # "none" /\ NoPolicyFile) =>
           /\ engine = "ready" /\ policies = DefaultPolicies
           /\ ev.made =>
                  /\ ~ev.exc
                  /\ Len(ev.reports) = Len(ev.input)
                  /\ Len(ev.actions) = Len(ev.input)
                  /\ \A i \in DOMAIN ev.reports : ev.reports[i].severity = "warning"
                  /\ \A i \in DOMAIN ev.actions :
                         /\ ev.actions[i].action_type = "remediate"
                         /\ ev.actions[i].auto_apply = TRUE
    /\ (engine = "ready" /\ ~NoPolicyFile) => policies = FirstPolicyFile

\* C12 witness: with no policy file, two records, one of them not WARNING
\* before, were evaluated.
C12_Witness ==
    /\ NoPolicyFile /\ engine = "ready" /\ Evaluated
    /\ Len(ev.input) = 2
    /\ \E i \in DOMAIN ev.input : ev.input[i].severity = "safe"

\* C12 witness of the second part: two candidate paths with different documents
\* exist and the engine was constructed.
C12_WitnessFirst ==
    /\ engine = "ready"
    /\ policy_files[1] # Absent /\ policy_files[2] # Absent
    /\ policy_files[1] # policy_files[2]
    /\ Evaluated /\ ev.input # <<>>

\* C13 as stated: when the first existing policy file cannot be parsed or holds
\* an empty document, constructing the PolicyEngine does not raise, the engine
\* holds the built-in rule set, and evaluate does not raise.
C13_UnreadableFileGivesDefault ==
    (/\ engine # "none" /\ ~NoPolicyFile
     /\ FirstPolicyFile \in {Unparseable, PyNone}) =>
        /\ engine = "ready"
        /\ policies = DefaultPolicies
        /\ ev.made => ~ev.exc

(***************************************************************************)
(* The process: the scheduler running run_drift_detection cycle after      *)
(* cycle.                                                                  *)
(***************************************************************************)
MainAws ==
    {Resources(PyList(<<Resource("aws_instance", "a", ValuesX1)>>)),
     Resources(PyList(<<Resource("aws_instance", "a", ValuesX2Tags)>>)),
     Resources(PyList(<<Resource("aws_instance", "a", ValuesX1),
                        Resource("aws_instance", "b", ValuesX1)>>)),
     Resources(PyList(<<Resource("aws_instance", "a", ValuesX2Tags),
                        Resource("aws_instance", "a", ValuesX1)>>))} \X AwsLive
MainK8s ==
    {Deployments(PyList(<<Deployment("default", "a", SpecReplicas)>>)),
     Deployments(PyList(<<Deployment("default", "a", SpecSelector),
                          Deployment("prod", "a", SpecReplicas)>>))} \X K8sLive
MainKafka == {Topics(PyList(<<Topic("a", 3)>>))} \X KafkaLive

\* the Kafka settings a cycle starts with: bootstrap_servers of the kafka
\* section of the configuration file, the KAFKA_BOOTSTRAP_SERVERS environment
\* variable, and whether KafkaDetector(config) raises
KafkaStarts ==
    [file : {Absent, PyStr(""), PyStr("kafka:9092")},
     env : {Absent, PyStr(""), PyStr("env:9092")},
     init : {"ok", "raise"}]

MainKafkaStarts ==
    {[file |-> Absent, env |-> Absent, init |-> "ok"],
     [file |-> PyStr(""), env |-> Absent, init |-> "ok"]}

\* what the providers hand to one cycle; failed: "fetch" when a provider
\* raised while the cycle collected the states, "report" when the report sink
\* raised
Snapshots ==
    [aws : MainAws, k8s : MainK8s, kafka : MainKafka,
     kafka_start : MainKafkaStarts, failed : {"none", "fetch", "report"}]

MainPolicyFiles ==
    {<<Absent, Absent, Absent>>,
     <<Absent, Policy(<<Rule("prod")>>, <<PyStr("tags")>>, <<PyStr("replicas")>>),
       Absent>>,
     <<PyNone, Absent, Absent>>,
     <<Absent, Unparseable, Absent>>}

\* main(): RUN_MODE decides between the scheduler and one cycle
MainRepoFiles ==
    {<<Absent, Absent>>,
     <<Policy(<<Rule("dev")>>, <<>>, <<PyStr("replicas")>>), Absent>>}

MainInit ==
    /\ policy_files \in MainPolicyFiles
    /\ repo_files \in MainRepoFiles
    /\ run_mode \in {"continuous", "once"}
    /\ ProcessInit

\* try: ... except Exception as e: ... of run_drift_detection: the status the
\* cycle records and whether the exception leaves run_drift_detection
cycle_except_reraise(raised) ==
    [status |-> IF raised THEN "error" ELSE "success", propagated |-> raised]

cycle_except(raised) ==
    [status |-> IF raised THEN "error" ELSE "success", propagated |-> FALSE]

\* the end of a cycle whose body had the outcome c: out is what the try
\* statement made of it; the caller (run_scheduler's loop, or main in one-time
\* mode) goes on, returns, or is left by the exception
EndCycle(c, out) ==
    /\ last_run' = out.status
    /\ run_log' = Append(run_log, [status |-> out.status, at |-> c.at])
    /\ process' = IF out.propagated THEN "exit nonzero"
                  ELSE IF run_mode = "continuous" THEN "running"
                  ELSE "exit 0"
    /\ seen_drifts' = c.seen
    /\ returned' = returned \cup c.returned
    /\ emitted' = emitted \cup c.log
    /\ monitoring' =
           [last_drift_count |-> monitoring.last_drift_count + Len(c.recorded)]
    /\ cwd' = IF c.at \in {"engine", "fetch"} THEN cwd ELSE "repo"
    /\ cycle_log' =
           Append(cycle_log,
                  [dir |-> cwd,
                   loaded |-> _load_policies(possible_paths(cwd, policy_files, repo_files)),
                   recorded |-> c.recorded,
                   alerts |-> IF c.exc THEN {"not evaluated"}
                              ELSE evaluate_alerts(monitoring')])
    /\ IF c.exc
       THEN UNCHANGED <<last_report, reported_before>>
       ELSE /\ last_report' = [made |-> TRUE, given |-> Len(c.recorded),
                               drift_reports |-> c.report.drift_reports,
                               actions |-> c.report.actions]
            /\ reported_before' =
                   reported_before \cup
                       (IF last_report.made
                        THEN DriftIds(last_report.drift_reports)
                        ELSE {})

FinishCycle(snap, c) == EndCycle(c, cycle_except(c.exc))

\* run_drift_detection()
RunDriftDetection(snap) ==
    /\ process = "running"
    /\ cycles < MaxCycles
    /\ cycles' = cycles + 1
    /\ UNCHANGED <<policy_files, repo_files, run_mode>>
    /\ kafka_detector' = start_kafka(snap)
    /\ FinishCycle(snap, run_cycle(seen_drifts,
                                   possible_paths(cwd, policy_files, repo_files), snap))

\* run_scheduler(): schedule.run_pending() runs the cycle that is due, on one
\* of the given snapshots
ScheduledCycleOn(snapshots) ==
    \E snap \in snapshots :
        /\ run_mode = "continuous"
        /\ RunDriftDetection(snap)
        /\ UNCHANGED <<call, ncalls, flattenVars, policyVars, configVars>>
        /\ UNCHANGED <<scheduler, health>>

\* main() in one-time mode: run_drift_detection() once
OneTimeRunOn(snapshots) ==
    \E snap \in snapshots :
        /\ run_mode # "continuous"
        /\ RunDriftDetection(snap)
        /\ UNCHANGED <<call, ncalls, flattenVars, policyVars, configVars>>
        /\ UNCHANGED <<scheduler, health>>

ScheduledCycle == ScheduledCycleOn(Snapshots)

OneTimeRun == OneTimeRunOn(Snapshots)

InitMain == AnalyzerInit /\ FlattenIdle /\ PolicyIdle /\ MainInit /\ ConfigIdle

NextMain == ScheduledCycle \/ OneTimeRun

SpecMain == InitMain /\ [][NextMain]_vars

(***************************************************************************)
(* The two threads of a process in continuous mode: the main thread in     *)
(* run_scheduler and the daemon thread in HTTPServer.serve_forever.        *)
(***************************************************************************)
ThreadSnapshots ==
    {snap \in Snapshots :
        /\ snap.aws[1] = Resources(PyList(<<Resource("aws_instance", "a", ValuesX1)>>))
        /\ snap.k8s[1] = Deployments(PyList(<<Deployment("default", "a", SpecReplicas)>>))}

Paths == {"/", "/health", "/ready", "/metrics", "/favicon.ico"}

\* prometheus_client.generate_latest(): the text of the default registry,
\* which holds the counters DriftGuardMonitoring.record_drift increments
generate_latest(registry) == [drift_total |-> registry.last_drift_count]

\* HealthCheckHandler.do_GET
do_GET(path, registry) ==
    IF path = "/health" \/ path = "/"
    THEN [status |-> 200, body |-> "OK - DriftGuard is running"]
    ELSE IF path = "/ready"
    THEN [status |-> 200, body |-> "OK - DriftGuard is ready"]
    ELSE IF path = "/metrics"
    THEN [status |-> 200, body |-> generate_latest(registry)]
    ELSE [status |-> 404, body |-> ""]

\* schedule.run_pending() runs a due job by calling it, in the thread that
\* called run_pending: a job starts only where that thread is at run_pending
run_pending_in_threads(pc) == pc \in {"run_pending", "cycle"}

run_pending(pc) == pc = "run_pending"

\* main(): in continuous mode the health thread is started and the main
\* thread enters run_scheduler; otherwise it calls run_drift_detection
MainStart ==
    /\ scheduler.pc = "main"
    /\ IF run_mode = "continuous"
       THEN /\ health' = [up |-> TRUE, served |-> FALSE]
            /\ scheduler' = [scheduler EXCEPT !.pc = "run_pending"]
       ELSE /\ scheduler' = [pc |-> "cycle", active |-> scheduler.active + 1]
            /\ UNCHANGED health
    /\ UNCHANGED <<analyzerVars, flattenVars, policyVars, configVars, policy_files,
                   repo_files, cycles, last_run, last_report, reported_before,
                   run_mode, process, run_log, cwd, monitoring, cycle_log,
                   kafka_detector>>

\* run_scheduler: schedule.run_pending() finds the job due and calls
\* run_drift_detection, or finds nothing due and returns
RunPending ==
    /\ run_pending(scheduler.pc)
    /\ process = "running"
    /\ \/ /\ cycles + scheduler.active < MaxCycles
          /\ scheduler' = [pc |-> "cycle", active |-> scheduler.active + 1]
       \/ scheduler' = [scheduler EXCEPT !.pc = "sleep"]
    /\ UNCHANGED <<analyzerVars, flattenVars, policyVars, configVars, policy_files,
                   repo_files, cycles, last_run, last_report, reported_before,
                   run_mode, process, run_log, cwd, monitoring, cycle_log,
                   kafka_detector, health>>

\* run_drift_detection returns to its caller: run_pending, which returns to
\* the loop of run_scheduler, or main in one-time mode
CycleReturns ==
    /\ scheduler.pc = "cycle"
    /\ \E snap \in ThreadSnapshots : RunDriftDetection(snap)
    /\ scheduler' = [pc |-> IF run_mode = "continuous" THEN "sleep" ELSE "exit",
                     active |-> scheduler.active - 1]
    /\ UNCHANGED <<call, ncalls, flattenVars, policyVars, configVars, health>>

\* run_scheduler: time.sleep(1) returns and the loop goes round
Sleep ==
    /\ scheduler.pc = "sleep"
    /\ scheduler' = [scheduler EXCEPT !.pc = "run_pending"]
    /\ UNCHANGED <<analyzerVars, flattenVars, policyVars, configVars, policy_files,
                   repo_files, cycles, last_run, last_report, reported_before,
                   run_mode, process, run_log, cwd, monitoring, cycle_log,
                   kafka_detector, health>>

\* the health thread serves one GET request, wherever the main thread is
HealthRequest ==
    /\ health.up
    /\ \E path \in Paths :
           health' = [up |-> TRUE, served |-> TRUE, path |-> path,
                      during |-> scheduler.pc,
                      response |-> do_GET(path, monitoring)]
    /\ UNCHANGED <<analyzerVars, flattenVars, policyVars, configVars, policy_files,
                   repo_files, cycles, last_run, last_report, reported_before,
                   run_mode, process, run_log, cwd, monitoring, cycle_log,
                   kafka_detector, scheduler>>

NextThreads == MainStart \/ RunPending \/ CycleReturns \/ Sleep \/ HealthRequest

SpecThreads == InitMain /\ [][NextThreads]_vars

\* the cycles of a process under every Kafka setting, on one cloud and one
\* cluster snapshot
KafkaSnapshots ==
    {snap \in [aws : MainAws, k8s : MainK8s, kafka : MainKafka,
               kafka_start : KafkaStarts, failed : {"none", "fetch", "report"}] :
        /\ snap.aws[1] = Resources(PyList(<<Resource("aws_instance", "a", ValuesX1)>>))
        /\ snap.k8s[1] = Deployments(PyList(<<Deployment("default", "a", SpecReplicas)>>))}

NextKafka == ScheduledCycleOn(KafkaSnapshots) \/ OneTimeRunOn(KafkaSnapshots)

SpecKafka == InitMain /\ [][NextKafka]_vars

\* one pass of the loop of run_scheduler in which schedule.run_pending() runs
\* the cycle that is due: the step ScheduledCycle takes, as far as cycles goes
SchedulerStep ==
    /\ run_mode = "continuous" /\ process = "running"
    /\ cycles < MaxCycles
    /\ cycles' = cycles + 1

\* the loop of run_scheduler never stops calling schedule.run_pending(), so a
\* cycle that stays due is run
SpecMainFair == SpecMain /\ WF_cycles(SchedulerStep)

\* C2: once a cycle of the process has reported a field-level drift, no later
\* cycle of the process produces a record for it again.
C2_ReportedOncePerProcess ==
    last_report.made =>
        DriftIds(last_report.drift_reports) \cap reported_before = {}

C14_ContinuousSurvivesFailure ==
    /\ [](run_mode = "continuous" =>
              /\ process = "running"
              /\ Len(run_log) = cycles
              /\ \A i \in DOMAIN run_log :
                     (run_log[i].at # "none") <=> (run_log[i].status = "error")
              /\ cycles > 0 => last_run = run_log[cycles].status)
    /\ \A n \in 1..(MaxCycles - 1) :
           (run_mode = "continuous" /\ cycles = n /\ last_run = "error")
               ~> (cycles = n + 1)

\* C14 witness: in continuous mode the first cycle failed while reporting and
\* the second cycle ran and succeeded.
C14_Witness ==
    /\ run_mode = "continuous" /\ process = "running"
    /\ cycles = 2
    /\ run_log[1] = [status |-> "error", at |-> "report"]
    /\ run_log[2].status = "success"

\* C14 witnesses of the other steps: a cycle that failed while fetching, while
\* constructing the PolicyEngine, and while evaluating, each followed by another
\* cycle.
C14_WitnessFetch ==
    run_mode = "continuous" /\ cycles = 2 /\ run_log[1].at = "fetch"

C14_WitnessEngine ==
    run_mode = "continuous" /\ cycles = 2 /\ run_log[1].at = "engine"

C14_WitnessEvaluate ==
    run_mode = "continuous" /\ cycles = 2 /\ run_log[1].at = "evaluate"

\* C15 as stated: in one-time mode, when the cycle failed, the process ends
\* with a non-zero exit status.
C15_OneTimeFailureExitsNonZero ==
    (/\ run_mode # "continuous"
     /\ process # "running"
     /\ last_run = "error") => process = "exit nonzero"


(***************************************************************************)
(* config_loader.validate_config                                           *)
(***************************************************************************)
\* not s.strip(), for a string s (the whitespace of the inputs is the space)
IsBlank(s) == \A i \in 1..Len(s) : SubSeq(s, i, i) = " "

\* if not section.get(key): ... is required
\* elif not isinstance(section[key], str) or not section[key].strip(): ...
check_required(section, key, label) ==
    IF ~Truthy(DictGet(section, key, PyNone))
    THEN <<label \o " is required">>
    ELSE IF DictAt(section, key).t # "str" \/ IsBlank(DictAt(section, key).v)
         THEN <<label \o " must be a non-empty string">>
         ELSE <<>>

\* the github.token and kafka.bootstrap_servers checks: a falsy value is let
\* through (the token with a warning), a truthy one has to be a non-blank string
check_optional(section, key, label) ==
    IF ~Truthy(DictGet(section, key, PyNone))
    THEN <<>>
    ELSE IF DictAt(section, key).t # "str" \/ IsBlank(DictAt(section, key).v)
         THEN <<label \o " must be a non-empty string if provided">>
         ELSE <<>>

\* x not in [names...]: the f-string error, or nothing
check_choice(x, names, label, listed) ==
    IF x.t = "str" /\ x.v \in names
    THEN <<>>
    ELSE <<label \o " '" \o Format(x) \o "' is not valid. Must be one of: " \o listed>>

\* "\n".join([f"  - {error}" for error in errors])
RECURSIVE join_errors(_)
join_errors(errors) ==
    IF errors = <<>> THEN ""
    ELSE IF Len(errors) = 1 THEN "  - " \o errors[1]
    ELSE "  - " \o errors[1] \o "\n" \o join_errors(Tail(errors))

error_msg(errors) ==
    "Configuration validation failed with the following errors:\n" \o join_errors(errors)

raise_errors_fail_fast(errors) ==
    IF errors # <<>>
    THEN [exc |-> "ValueError", errors |-> <<errors[1]>>, message |-> error_msg(<<errors[1]>>)]
    ELSE [exc |-> "none", errors |-> <<>>, message |-> ""]

\* if errors: raise ValueError(error_msg)
raise_errors(errors) ==
    IF errors # <<>>
    THEN [exc |-> "ValueError", errors |-> errors, message |-> error_msg(errors)]
    ELSE [exc |-> "none", errors |-> <<>>, message |-> ""]

\* config.get(name, {}), and whether the .get on it raises AttributeError
section_of(cfg, name) == DictGet(cfg, name, PyDict(<<>>))

AttributeError == [exc |-> "AttributeError", errors |-> <<>>, message |-> ""]

validate_logging(cfg, errors) ==
    IF ~IsDict(section_of(cfg, "logging")) THEN AttributeError
    ELSE raise_errors(errors \o
            check_choice(DictGet(section_of(cfg, "logging"), "level", PyStr("INFO")),
                         {"DEBUG", "INFO", "WARNING", "ERROR", "CRITICAL"},
                         "Log level", "DEBUG, INFO, WARNING, ERROR, CRITICAL"))

validate_output(cfg, errors) ==
    IF ~IsDict(section_of(cfg, "output")) THEN AttributeError
    ELSE validate_logging(cfg, errors \o
            check_choice(DictGet(section_of(cfg, "output"), "destination", PyStr("stdout")),
                         {"stdout", "s3", "file"},
                         "Output destination", "stdout, s3, file"))

validate_kafka(cfg, errors) ==
    IF ~IsDict(section_of(cfg, "kafka")) THEN AttributeError
    ELSE validate_output(cfg, errors \o
            check_optional(section_of(cfg, "kafka"), "bootstrap_servers",
                           "Kafka bootstrap servers"))

validate_github(cfg, errors) ==
    IF ~IsDict(section_of(cfg, "github")) THEN AttributeError
    ELSE validate_kafka(cfg, errors \o
            check_optional(section_of(cfg, "github"), "token", "GitHub token"))

validate_aws(cfg, errors) ==
    IF ~IsDict(section_of(cfg, "aws")) THEN AttributeError
    ELSE validate_github(cfg, errors
            \o check_required(section_of(cfg, "aws"), "region", "AWS region")
            \o check_required(section_of(cfg, "aws"), "account_id", "AWS account ID")
            \o check_required(section_of(cfg, "aws"), "terraform_state_key",
                              "Terraform state key"))

validate_config(cfg) ==
    IF ~IsDict(section_of(cfg, "git")) THEN AttributeError
    ELSE validate_aws(cfg,
            check_required(section_of(cfg, "git"), "repo_url", "Git repository URL")
            \o check_required(section_of(cfg, "git"), "branch", "Git branch"))

\* the configurations validate_config is given: every field absent or one of a
\* few values, and every section a mapping, absent, or something else
Entry(key, value) == IF value = Absent THEN <<>> ELSE <<<<key, value>>>>

Section(name, entries) == IF entries = <<>> THEN <<>> ELSE <<<<name, PyDict(entries)>>>>

RepoUrls == {Absent, PyNone, PyStr(""), PyStr(" "), PyStr("git@host:repo"), PyInt(5), PyInt(0)}
Branches == {Absent, PyStr(" "), PyStr("main")}
Regions == {Absent, PyStr("us-east-1")}
AccountIds == {Absent, PyInt(5), PyStr("1")}
StateKeys == {Absent, PyStr("tf.state")}
Tokens == {Absent, PyStr(""), PyStr(" "), PyStr("ghp"), PyInt(5)}
BootstrapServers == {Absent, PyStr(" "), PyStr("kafka:9092")}
Destinations == {Absent, PyNone, PyStr("s3"), PyStr("ftp")}
Levels == {Absent, PyStr("DEBUG"), PyStr("TRACE")}

FieldConfigs ==
    { PyDict(Section("git", Entry("repo_url", u) \o Entry("branch", b))
             \o Section("aws", Entry("region", r) \o Entry("account_id", a)
                               \o Entry("terraform_state_key", k))
             \o Section("github", Entry("token", t))
             \o Section("kafka", Entry("bootstrap_servers", s))
             \o Section("output", Entry("destination", d))
             \o Section("logging", Entry("level", l))) :
        u \in RepoUrls, b \in Branches, r \in Regions, a \in AccountIds, k \in StateKeys,
        t \in Tokens, s \in BootstrapServers, d \in Destinations, l \in Levels }

SectionNames == {"git", "aws", "github", "kafka", "output", "logging"}

GoodGit == <<"git", PyDict(<<<<"repo_url", PyStr("git@host:repo")>>, <<"branch", PyStr("main")>>>>)>>
GoodAws == <<"aws", PyDict(<<<<"region", PyStr("us-east-1")>>, <<"account_id", PyStr("1")>>, <<"terraform_state_key", PyStr("tf.state")>>>>)>>

\* a section that is present and no mapping (git: with nothing under it)
ShapeConfigs ==
    { PyDict(<<GoodGit, GoodAws, <<name, shape>>>>) :
        name \in SectionNames \ {"git", "aws"}, shape \in {PyNone, PyStr("x")} }
    \cup { PyDict(<<<<"git", shape>>, GoodAws>>) : shape \in {PyNone, PyStr("x")} }
    \cup { PyDict(<<GoodGit, <<"aws", shape>>, <<"logging", PyDict(<<<<"level", PyStr("TRACE")>>>>)>>>>) :
             shape \in {PyNone, PyStr("x")} }

Configs == FieldConfigs \cup ShapeConfigs

ConfigInit == config \in Configs /\ validated = [done |-> FALSE]

ValidateConfig ==
    /\ ~validated.done
    /\ validated' = [done |-> TRUE, out |-> validate_config(config)]
    /\ UNCHANGED config

InitConfig == AnalyzerInit /\ FlattenIdle /\ PolicyIdle /\ MainIdle /\ ConfigInit


NextConfig == ValidateConfig /\ UNCHANGED <<analyzerVars, flattenVars, policyVars, mainVars>>

SpecConfig == InitConfig /\ [][NextConfig]_vars

\* the value the configuration gives a field, Absent when it gives none
ConfigField(name, key) ==
    IF HasKey(config, name) /\ IsDict(DictAt(config, name)) /\ HasKey(DictAt(config, name), key)
    THEN DictAt(DictAt(config, name), key)
    ELSE Absent

NonBlankString(x) == x.t = "str" /\ \E i \in 1..Len(x.v) : SubSeq(x.v, i, i) # " "

MissingOrEmpty(x) == x = Absent \/ ~Truthy(x)

RequiredFields ==
    << <<"git", "repo_url", "Git repository URL">>,
       <<"git", "branch", "Git branch">>,
       <<"aws", "region", "AWS region">>,
       <<"aws", "account_id", "AWS account ID">>,
       <<"aws", "terraform_state_key", "Terraform state key">> >>

RequiredViolated(f) == ~NonBlankString(ConfigField(f[1], f[2]))

RequiredMessage(f) ==
    IF MissingOrEmpty(ConfigField(f[1], f[2]))
    THEN f[3] \o " is required"
    ELSE f[3] \o " must be a non-empty string"

ProvidedFields ==
    << <<"github", "token", "GitHub token">>,
       <<"kafka", "bootstrap_servers", "Kafka bootstrap servers">> >>

ProvidedViolated(f) ==
    ~MissingOrEmpty(ConfigField(f[1], f[2])) /\ ~NonBlankString(ConfigField(f[1], f[2]))

ProvidedMessage(f) == f[3] \o " must be a non-empty string if provided"

ChoiceFields ==
    << <<"output", "destination", "Output destination", {"stdout", "s3", "file"},
         "stdout, s3, file">>,
       <<"logging", "level", "Log level", {"DEBUG", "INFO", "WARNING", "ERROR", "CRITICAL"},
         "DEBUG, INFO, WARNING, ERROR, CRITICAL">> >>

ChoiceViolated(f) ==
    /\ ConfigField(f[1], f[2]) # Absent
    /\ ~(ConfigField(f[1], f[2]).t = "str" /\ ConfigField(f[1], f[2]).v \in f[4])

ChoiceMessage(f) ==
    f[3] \o " '" \o Format(ConfigField(f[1], f[2])) \o "' is not valid. Must be one of: " \o f[5]

\* the messages of the violated rules of each kind, in the order of the checks
RequiredMessages ==
    [i \in 1..Len(SelectSeq(RequiredFields, RequiredViolated)) |->
        RequiredMessage(SelectSeq(RequiredFields, RequiredViolated)[i])]

ProvidedMessages ==
    [i \in 1..Len(SelectSeq(ProvidedFields, ProvidedViolated)) |->
        ProvidedMessage(SelectSeq(ProvidedFields, ProvidedViolated)[i])]

ChoiceMessages ==
    [i \in 1..Len(SelectSeq(ChoiceFields, ChoiceViolated)) |->
        ChoiceMessage(SelectSeq(ChoiceFields, ChoiceViolated)[i])]

StatedMessages == RequiredMessages \o ChoiceMessages

ViolatedMessages == RequiredMessages \o ProvidedMessages \o ChoiceMessages

AllSectionsMappings ==
    \A name \in SectionNames : HasKey(config, name) => IsDict(DictAt(config, name))

TokenAloneMissing ==
    /\ MissingOrEmpty(ConfigField("github", "token"))
    /\ ViolatedMessages = <<>>

C18_WitnessTokenOnly ==
    /\ validated.done
    /\ StatedMessages = <<>>
    /\ validated.out.errors = <<"GitHub token must be a non-empty string if provided">>
    /\ validated.out.exc = "ValueError"

\* the token is missing and nothing is raised
C18_WitnessTokenMissing ==
    /\ validated.done
    /\ ConfigField("github", "token") = Absent
    /\ AllSectionsMappings
    /\ validated.out.exc = "none"

\* a section without a mapping
C18_WitnessSection ==
    /\ validated.done
    /\ ~AllSectionsMappings
    /\ StatedMessages # <<>>
    /\ validated.out.exc = "AttributeError"


(***************************************************************************)
(* The policy rule set, the metrics and the alerts of the cycles of one    *)
(* process.                                                                *)
(***************************************************************************)
\* C21: every cycle of the process uses the rule set the first cycle used,
\* resolved from the location the first cycle resolved it from.
C21_RuleSetLoadedOnce ==
    \A i \in DOMAIN cycle_log :
        /\ cycle_log[i].loaded = cycle_log[1].loaded
        /\ cycle_log[i].dir = cycle_log[1].dir

\* the first cycle found no policies file and used the default rule set; the
\* second cycle loaded the policies file of the repository the first cycle
\* changed the working directory to
C21_SecondCycleLoadsRepositoryFile ==
    /\ Len(cycle_log) = 2
    /\ cycle_log[1].dir = "start" /\ cycle_log[1].loaded.val = DefaultPolicies
    /\ cycle_log[2].dir = "repo" /\ cycle_log[2].loaded.val = repo_files[1]
    /\ repo_files[1] # Absent
    /\ run_log[1].status = "success" /\ run_log[2].status = "success"


\* C26: in the report a successful cycle hands to the report sink,
\* drift_reports and actions have the same length, the i-th action is for the
\* resource of the i-th drift report, and the reporter's deduplication dropped
\* no record of the cycle: the fingerprints of the records are all different.
C26_ReportAligned ==
    last_report.made =>
        /\ Len(last_report.drift_reports) = Len(last_report.actions)
        /\ \A i \in DOMAIN last_report.drift_reports :
               /\ last_report.actions[i].resource_type
                      = last_report.drift_reports[i].resource_type
               /\ last_report.actions[i].resource_id
                      = last_report.drift_reports[i].resource_id
        /\ Len(last_report.drift_reports) = last_report.given
        /\ Cardinality(DriftIds(last_report.drift_reports))
               = Len(last_report.drift_reports)

\* C26 witness: a cycle reported records of the cloud, the cluster and the
\* messaging comparator, one of them classified as ignored, with their actions
C26_Witness ==
    /\ last_report.made
    /\ Len(last_report.actions) >= 5
    /\ {last_report.drift_reports[i].drift_type : i \in DOMAIN last_report.drift_reports}
           = {"aws", "kubernetes", "kafka"}
    /\ \E i \in DOMAIN last_report.drift_reports :
           last_report.drift_reports[i].severity = "ignored"

\* a cycle whose cloud snapshot declares one resource twice: the analyzer kept
\* one record per fingerprint, the reporter had nothing to drop
C26_WitnessRepeatedResource ==
    /\ last_report.made /\ cycles = 1
    /\ Cardinality({e \in emitted : e.domain = "aws"}) = 2
    /\ \E r \in returned : r.field_path = "tags"
    /\ \E r \in returned : r.field_path = "x" /\ r.expected_value = PyInt(2)
    /\ \A r \in returned : r.expected_value # PyInt(1)


\* C27: for every drift record of a successful cycle, the severity passed to
\* monitoring.record_drift is the severity the record has in the report handed
\* to the reporter.
C27_RecordedSeverityIsReported ==
    (cycles > 0 /\ run_log[cycles].status = "success") =>
        \A i \in DOMAIN cycle_log[cycles].recorded :
            \E j \in DOMAIN last_report.drift_reports :
                /\ last_report.drift_reports[j].drift_id
                       = cycle_log[cycles].recorded[i].drift_id
                /\ last_report.drift_reports[j].severity
                       = cycle_log[cycles].recorded[i].severity

\* a record the policy classified as critical was recorded as a warning
C27_CriticalRecordedAsWarning ==
    /\ cycles > 0 /\ run_log[cycles].status = "success"
    /\ \E i \in DOMAIN cycle_log[cycles].recorded :
           \E j \in DOMAIN last_report.drift_reports :
               /\ last_report.drift_reports[j].drift_id
                      = cycle_log[cycles].recorded[i].drift_id
               /\ last_report.drift_reports[j].severity = "critical"
               /\ cycle_log[cycles].recorded[i].severity = "warning"


\* C28: the HighDriftRate alert evaluate_alerts returns at the end of a cycle
\* is active exactly when that cycle alone recorded more than 10 drifts.
C28_HighDriftRateOfLastRun ==
    (cycles > 0 /\ run_log[cycles].status = "success") =>
        ("HighDriftRate" \in cycle_log[cycles].alerts
             <=> Len(cycle_log[cycles].recorded) > 10)

\* two cycles recorded seven drifts each: the alert is active after the second
C28_AlertOnAccumulatedCount ==
    /\ cycles = 2 /\ run_log[2].status = "success"
    /\ Len(cycle_log[1].recorded) = 7 /\ Len(cycle_log[2].recorded) = 7
    /\ monitoring.last_drift_count = 14
    /\ cycle_log[1].alerts = {}
    /\ cycle_log[2].alerts = {"HighDriftRate"}


(***************************************************************************)
(* What PolicyEngine.evaluate leaves alone.                                *)
(***************************************************************************)
\* C30: an evaluate call leaves the engine's policies as they were, and every
\* record passed to it is after the call the record it was before the call
\* with, at most, another severity.
C30_EvaluateChangesSeverityOnly ==
    [][/\ policies' = policies
       /\ Len(ev'.reports) = Len(ev'.input)
       /\ \A i \in DOMAIN ev'.input :
              ev'.reports[i] = [ev'.input[i] EXCEPT !.severity = ev'.reports[i].severity]]_vars

\* C30 witness: an evaluate call changed the severity of a record
C30_Witness ==
    /\ ev.made /\ ~ev.exc
    /\ Len(ev.input) = 2
    /\ \E i \in DOMAIN ev.input : ev.reports[i].severity # ev.input[i].severity
    /\ \E i \in DOMAIN ev.input : ev.reports[i].severity = ev.input[i].severity
    /\ Len(ev.actions) = 2


(***************************************************************************)
(* The Kafka detector of a cycle.                                          *)
(***************************************************************************)
\* C29: a cycle started with no kafka.bootstrap_servers in the configuration
\* file and KAFKA_BOOTSTRAP_SERVERS unset constructs no KafkaDetector and runs
\* with Kafka disabled.
C29_KafkaOffWhenUnconfigured ==
    (/\ kafka_detector.made
     /\ kafka_detector.file = Absent
     /\ kafka_detector.env = Absent) =>
        /\ ~kafka_detector.constructed
        /\ ~kafka_detector.kafka_enabled

\* C29 evidence: with neither setting given, load_config stores the default
\* 'localhost:9092', which is truthy: the detector is constructed and the
\* cycle compares the messaging states it returns
C29_DefaultServersEnableKafka ==
    /\ kafka_detector.made
    /\ kafka_detector.file = Absent /\ kafka_detector.env = Absent
    /\ kafka_detector.bootstrap_servers = PyStr("localhost:9092")
    /\ kafka_detector.constructed /\ kafka_detector.kafka_enabled
    /\ \E e \in emitted : e.domain = "kafka"

\* C29 evidence: the disabled branch is taken when the file gives an empty
\* bootstrap_servers
C29_EmptyServersDisableKafka ==
    /\ kafka_detector.made
    /\ kafka_detector.file = PyStr("") /\ kafka_detector.env = Absent
    /\ ~kafka_detector.constructed /\ ~kafka_detector.kafka_enabled
    /\ cycles = 1 /\ \A e \in emitted : e.domain # "kafka"


(***************************************************************************)
(* The cycles and the health responder of one process.                     *)
(***************************************************************************)
\* C23: at most one cycle is in progress at any time, a cycle starts only when
\* none is in progress, and a request served by the health thread leaves the
\* drift records, the fingerprint set and the policy rule set as they were and
\* answers from the request path and the metrics registry alone.
C23_CyclesSequentialHealthApart ==
    [][/\ scheduler'.active <= 1
       /\ (scheduler'.active > scheduler.active => scheduler.active = 0)
       /\ (cycles' # cycles => scheduler.active = 1 /\ scheduler'.active = 0)
       /\ (health' # health /\ health.up =>
                /\ UNCHANGED <<analyzerVars, policyVars, policy_files, repo_files,
                               last_report, reported_before, cycle_log, monitoring>>
                /\ health'.response.status = (IF health'.path \in {"/", "/health", "/ready", "/metrics"}
                                              THEN 200 ELSE 404)
                /\ health'.response.body =
                       (CASE health'.path \in {"/", "/health"} -> "OK - DriftGuard is running"
                          [] health'.path = "/ready" -> "OK - DriftGuard is ready"
                          [] health'.path = "/metrics" ->
                                 [drift_total |-> monitoring.last_drift_count]
                          [] OTHER -> ""))]_vars

\* C23 witness: a second cycle has returned after the first, and the health
\* thread served /metrics while the main thread was inside it
C23_Witness ==
    /\ cycles = 2 /\ scheduler.active = 0 /\ scheduler.pc = "sleep"
    /\ seen_drifts # {} /\ last_report.made
    /\ health.served /\ health.during = "cycle" /\ health.path = "/metrics"
    /\ health.response.body.drift_total > 0

=============================================================================
